---- MODULE Spec2Model ----
(***************************************************************************)
(* The usage-based entitlement ledger of fathom (apps/backend/fathom):     *)
(* credit lots, the entitlement snapshot with its debt, billing orders and *)
(* webhook events, as rows of a store that offers single-row conditional   *)
(* updates only.  Every awaited store request of the Python code is one    *)
(* atomic step of the process that runs it; the local computation between  *)
(* two requests belongs to the step of the request that follows it.        *)
(***************************************************************************)
EXTENDS Integers, Sequences, FiniteSets, TLC

\* ------------------------------------------------------------------ bounds
MaxGranted == 6      \* largest granted_seconds of a lot the lot engine starts from
MaxSeconds == 2      \* largest seconds_to_consume of a direct consume call
MaxLots == 2         \* most lots a ledger state of SpecSeq starts with
MaxDuration == 2     \* longest job whose usage is recorded
MaxDebt == 3         \* the workers stop recording once this much is owed
InitDebt == 2        \* largest debt a user of SpecPaid starts with
RefundGranted == 3   \* granted_seconds of the pack whose refund is requested
MaxRefundCalls == 3  \* create-refund requests after which the user stops asking
OrderRefundCalls == 1  \* the same, where webhook deliveries run beside the requests
E2ECap == 1000       \* debt cap of the end-to-end scenario
E2EUsage == 100      \* seconds of the scenario's job
E2ESmall == 40       \* seconds of another job a worker may report
E2EOps == 3          \* operations the scenario's worker runs
ExpireClock == 2     \* last value of the clock of SpecExpire; the lots expire at 1 and at ExpireClock
SeqSeconds == 3      \* largest seconds_to_consume asked of consume_credit_lots

\* --------------------------------------------------------- program constants
MaxRetries == 5                          \* consume_credit_lot_by_id(max_retries=5)
RevokeRetries == 5                       \* revoke_remaining_credit_lot: range(5)

Procs == {"p1", "p2"}
Users == {"u1"}
OrderIds == {"o1"}
EventIds == {"e1", "e2"}
NoExpiry == -1                           \* pack_expires_at IS NULL
NoDebt == -1                             \* debt_seconds=None, the default of billing's _sync_entitlement_snapshot
FarExpiry == 1000000                     \* an expiry no clock value of the model reaches

VARIABLES
    lots,       \* table credit_lots: sequence of rows, id = index = creation order
    ent,        \* table entitlements: per user its snapshot row, or NoEnt
    orders,     \* table billing_orders: per provider order id its row, or NoOrder
    events,     \* table billing_webhook_events: per event id its row, or NoEvent
    usage_ledger, \* table usage_ledger: the rows inserted, in insertion order
    refunds,    \* the provider's side: the create-refund requests it received, in order
    cap,        \* settings.billing_debt_cap_seconds
    now,        \* the clock, datetime.now(UTC), in seconds
    pc,         \* per process: the store request it issues next
    stack,      \* per process: the labels its pending calls return to
    loc,        \* per process: the local variables of its running calls
    returned,   \* history, per lot id: consumed at start + sum of the values consume_credit_lot_by_id returned
    debt_due,   \* history, per user: the debt at start + every recorded shortfall - every applied paydown
    trace       \* history: the operations completed so far, in order (kept by the sequential scenarios)

tables == <<lots, ent, orders, events, usage_ledger, refunds>>
vars == <<lots, ent, orders, events, usage_ledger, refunds, cap, now, pc, stack, loc, returned, debt_due, trace>>

\* what a step leaves alone, besides pc, stack and loc
keep_all == <<lots, ent, orders, events, usage_ledger, refunds, cap, now, returned, debt_due, trace>>
keep_but_lots == <<ent, orders, events, usage_ledger, refunds, cap, now, debt_due, trace>>
keep_but_ent == <<lots, orders, events, usage_ledger, refunds, cap, now, returned, trace>>
keep_but_orders == <<lots, ent, events, usage_ledger, refunds, cap, now, returned, debt_due, trace>>
keep_but_events == <<lots, ent, orders, usage_ledger, refunds, cap, now, returned, debt_due, trace>>
keep_but_ledger == <<lots, ent, orders, events, refunds, cap, now, returned, debt_due, trace>>
keep_but_refunds == <<lots, ent, orders, events, usage_ledger, cap, now, returned, debt_due, trace>>

\* ------------------------------------------------------------------- rows
NoLot == [id |-> 0, user |-> "", lot_type |-> "", source_key |-> "", granted |-> 0,
          consumed |-> 0, revoked |-> 0, expires |-> NoExpiry, status |-> "missing"]

\* an entitlements row that does not exist, and the column defaults of one just inserted
NoEnt == [exists |-> FALSE, sub_avail |-> 0, pack_avail |-> 0, pack_expires |-> NoExpiry,
          debt |-> 0, blocked |-> FALSE]
NewEnt == [NoEnt EXCEPT !.exists = TRUE]

\* wins and holder are history: the moves paid -> refund_pending made so far, and who made the one in force
NoOrder == [user |-> "", plan_type |-> "", paid |-> 0, refunded |-> 0, status |-> "missing",
            wins |-> 0, holder |-> ""]
\* error holds len(error); won is history: the claims that succeeded since the row last became claimable
NoEvent == [status |-> "missing", updated_at |-> 0, processed_at |-> -1, error |-> 0, won |-> 0]

Max2(a, b) == IF a >= b THEN a ELSE b
Min2(a, b) == IF a <= b THEN a ELSE b

\* A plausible slip: the seconds revoked are forgotten.
remaining_ignoring_revoked(lot) == Max2(lot.granted - lot.consumed, 0)

\* remaining_seconds_from_lot: max(granted - consumed - revoked, 0)
remaining_seconds_from_lot(lot) == Max2(lot.granted - lot.consumed - lot.revoked, 0)

\* what a set of lots holds together
RECURSIVE SumRemaining(_)
SumRemaining(S) ==
    IF S = {} THEN 0
    ELSE LET r == CHOOSE x \in S : TRUE IN remaining_seconds_from_lot(r) + SumRemaining(S \ {r})

\* fetch_credit_lot_by_id: the row with this id, or None
fetch_credit_lot_by_id(lot_id) == IF lot_id \in DOMAIN lots THEN lots[lot_id] ELSE NoLot

\* fetch_entitlement: the user's row, or None
fetch_entitlement(user_id) == ent[user_id]

\* A plausible slip: a lot is still good at the instant of its expiry.
is_expired_strict(lot, at) == lot.expires # NoExpiry /\ lot.expires < at

\* `expiry and expiry <= now`
is_expired(lot, at) == lot.expires # NoExpiry /\ lot.expires <= at

\* A plausible slip: the conditional update forgets the counters and matches on status only.
compare_status_only(lot_id, expected_consumed_seconds, expected_revoked_seconds, expected_status) ==
    /\ lot_id \in DOMAIN lots
    /\ lots[lot_id].status = expected_status

\* _compare_and_update_credit_lot: the WHERE clause of the conditional update;
\* TRUE iff the update affects the row (response.count > 0).
_compare_and_update_credit_lot(lot_id, expected_consumed_seconds, expected_revoked_seconds, expected_status) ==
    /\ lot_id \in DOMAIN lots
    /\ lots[lot_id].consumed = expected_consumed_seconds
    /\ lots[lot_id].revoked = expected_revoked_seconds
    /\ lots[lot_id].status = expected_status

\* update_credit_lot(lot_id, {"status": "expired"}): an unconditional update by id
update_credit_lot_expired(lot_id) == [lots EXCEPT ![lot_id].status = "expired"]

\* A plausible slip: NULLS FIRST, so a lot that never expires is drained before one that does.
lot_before_nulls_first(a, b) ==
    IF a.expires = b.expires THEN a.id < b.id
    ELSE IF a.expires = NoExpiry THEN TRUE
    ELSE IF b.expires = NoExpiry THEN FALSE
    ELSE a.expires < b.expires

\* ORDER BY pack_expires_at ASC (NULLS LAST, the store's default), created_at ASC
lot_before(a, b) ==
    IF a.expires = b.expires THEN a.id < b.id
    ELSE IF a.expires = NoExpiry THEN FALSE
    ELSE IF b.expires = NoExpiry THEN TRUE
    ELSE a.expires < b.expires

RECURSIVE order_lots(_)
order_lots(S) ==
    IF S = {} THEN <<>>
    ELSE LET first == CHOOSE a \in S : \A b \in S \ {a} : lot_before(a, b)
         IN <<first>> \o order_lots(S \ {first})

\* ----------------------------------------------------------------- locals
NoLocals == [
    ret |-> 0,                                       \* value of the call that returned last
    cbi_lot_id |-> 0, cbi_seconds |-> 0, cbi_now |-> 0, cbi_lot |-> NoLot, cbi_i |-> 0,
    rev_lot_id |-> 0, rev_lot |-> NoLot, rev_i |-> 0,
    lst_rows |-> <<>>, lst_out |-> <<>>,
    ccl_user |-> "", ccl_type |-> "", ccl_now |-> 0, ccl_exclude |-> {},
    ccl_remaining |-> 0, ccl_total |-> 0,
    sum_user |-> "", sum_now |-> 0, sum_exclude |-> {}, sum_rows |-> <<>>,
    sum_sub |-> 0, sum_pack |-> 0, sum_exp |-> NoExpiry,
    exc |-> 0,                                       \* len(str(exc)) of the exception in flight
    usy_user |-> "", usy_debt |-> 0,
    bsy_user |-> "", bsy_debt |-> NoDebt, bsy_eff |-> 0,
    efe_user |-> "",
    ruj_user |-> "", ruj_duration |-> 0, ruj_remaining |-> 0, ruj_debt0 |-> 0,
    adj_user |-> "", adj_delta |-> 0, adj_i |-> 0, adj_cur |-> 0,
    pdn_user |-> "", pdn_lot |-> 0, pdn_debt |-> 0,
    op_user |-> "", op_order |-> "", op_product |-> "", op_lot |-> 0,
    wh_event |-> "", wh_type |-> "", wh_inserted |-> FALSE, wh_user |-> "", wh_order |-> "", wh_product |-> "",
    rpr_user |-> "", rpr_order |-> "", rpr_paid |-> 0, rpr_amount |-> 0, rpr_remaining |-> 0,
    wh_total |-> 0, wh_delta |-> 0, wh_at |-> 0, orf_delta |-> 0,
    orf_order |-> "", orf_total |-> 0, orf_user |-> "", orf_refunded |-> 0, orf_status |-> "",
    orf_revoke |-> FALSE,
    efe_row |-> NoEnt,
    eua_user |-> "", eua_duration |-> 0,
    wh_cycle |-> "", wh_end |-> 0,
    sub_type |-> "", sub_user |-> "", sub_product |-> "", sub_cycle |-> "", sub_end |-> 0,
    sub_rollover |-> 0
]

\* a call: push the label to come back to, jump to the callee's first request
Call(p, entry, back, l) ==
    /\ pc' = [pc EXCEPT ![p] = entry]
    /\ stack' = [stack EXCEPT ![p] = <<back>> \o @]
    /\ loc' = [loc EXCEPT ![p] = l]

\* a return: pop the label, hand the value back
Return(p, value, l) ==
    /\ pc' = [pc EXCEPT ![p] = Head(stack[p])]
    /\ stack' = [stack EXCEPT ![p] = Tail(@)]
    /\ loc' = [loc EXCEPT ![p] = [l EXCEPT !.ret = value]]

Goto(p, label, l) ==
    /\ pc' = [pc EXCEPT ![p] = label]
    /\ loc' = [loc EXCEPT ![p] = l]
    /\ UNCHANGED stack

\* --------------------------------------------- consume_credit_lot_by_id
cbi_clear(l) == [l EXCEPT !.cbi_lot_id = 0, !.cbi_seconds = 0, !.cbi_now = 0,
                          !.cbi_lot = NoLot, !.cbi_i = 0]

\* lines 553-556: seconds_to_consume <= 0 returns 0 without a request; else the first fetch
consume_credit_lot_by_id_fetch(p) ==
    /\ pc[p] = "cbi_fetch"
    /\ LET l == loc[p] IN
       IF l.cbi_seconds <= 0
       THEN Return(p, 0, cbi_clear(l))
       ELSE Goto(p, "cbi_try", [l EXCEPT !.cbi_lot = fetch_credit_lot_by_id(l.cbi_lot_id), !.cbi_i = 0])
    /\ UNCHANGED keep_all

\* lines 557-596: one pass of the retry loop up to its conditional update
consume_credit_lot_by_id_try(p) ==
    /\ pc[p] = "cbi_try"
    /\ LET l == loc[p]
           lot == l.cbi_lot
           remaining == Max2(lot.granted - lot.consumed - lot.revoked, 0)
           consume == Min2(remaining, l.cbi_seconds)
       IN
       IF lot.status = "missing" \/ lot.status # "active"
       THEN /\ Return(p, 0, cbi_clear(l))
            /\ UNCHANGED <<lots, returned>>
       ELSE IF is_expired(lot, l.cbi_now)
       THEN /\ lots' = IF _compare_and_update_credit_lot(l.cbi_lot_id, lot.consumed, lot.revoked, "active")
                       THEN [lots EXCEPT ![l.cbi_lot_id].status = "expired"]
                       ELSE lots
            /\ Return(p, 0, cbi_clear(l))
            /\ UNCHANGED returned
       ELSE IF remaining <= 0
       THEN /\ Return(p, 0, cbi_clear(l))
            /\ UNCHANGED <<lots, returned>>
       ELSE IF _compare_and_update_credit_lot(l.cbi_lot_id, lot.consumed, lot.revoked, "active")
       THEN /\ lots' = [lots EXCEPT ![l.cbi_lot_id].consumed = lot.consumed + consume]
            /\ returned' = [returned EXCEPT ![l.cbi_lot_id] = @ + consume]
            /\ Return(p, consume, cbi_clear(l))
       ELSE /\ Goto(p, "cbi_refetch", l)
            /\ UNCHANGED <<lots, returned>>
    /\ UNCHANGED keep_but_lots

\* line 598, then the loop head: after max_retries lost updates the call returns 0
consume_credit_lot_by_id_refetch(p) ==
    /\ pc[p] = "cbi_refetch"
    /\ LET l == loc[p] IN
       IF l.cbi_i + 1 >= MaxRetries
       THEN Return(p, 0, cbi_clear(l))
       ELSE Goto(p, "cbi_try", [l EXCEPT !.cbi_lot = fetch_credit_lot_by_id(l.cbi_lot_id),
                                         !.cbi_i = l.cbi_i + 1])
    /\ UNCHANGED keep_all

\* --------------------------------------------- revoke_remaining_credit_lot
rev_clear(l) == [l EXCEPT !.rev_lot_id = 0, !.rev_lot = NoLot, !.rev_i = 0]

\* line 604
revoke_remaining_credit_lot_fetch(p) ==
    /\ pc[p] = "rev_fetch"
    /\ Goto(p, "rev_try", [loc[p] EXCEPT !.rev_lot = fetch_credit_lot_by_id(loc[p].rev_lot_id), !.rev_i = 0])
    /\ UNCHANGED keep_all

\* lines 605-638
revoke_remaining_credit_lot_try(p) ==
    /\ pc[p] = "rev_try"
    /\ LET l == loc[p]
           lot == l.rev_lot
           remaining == Max2(lot.granted - lot.consumed - lot.revoked, 0)
       IN
       IF lot.status = "missing"
       THEN /\ Return(p, 0, rev_clear(l))
            /\ UNCHANGED lots
       ELSE IF remaining <= 0
       THEN /\ lots' = IF lot.status = "active"
                          /\ _compare_and_update_credit_lot(l.rev_lot_id, lot.consumed, lot.revoked, "active")
                       THEN [lots EXCEPT ![l.rev_lot_id].status = "revoked"]
                       ELSE lots
            /\ Return(p, 0, rev_clear(l))
       ELSE IF _compare_and_update_credit_lot(l.rev_lot_id, lot.consumed, lot.revoked, "active")
       THEN /\ lots' = [lots EXCEPT ![l.rev_lot_id].revoked = lot.revoked + remaining,
                                    ![l.rev_lot_id].status = "revoked"]
            /\ Return(p, remaining, rev_clear(l))
       ELSE /\ Goto(p, "rev_refetch", l)
            /\ UNCHANGED lots
    /\ UNCHANGED <<returned>>
    /\ UNCHANGED keep_but_lots

\* line 640, then the loop head
revoke_remaining_credit_lot_refetch(p) ==
    /\ pc[p] = "rev_refetch"
    /\ LET l == loc[p] IN
       IF l.rev_i + 1 >= RevokeRetries
       THEN Return(p, 0, rev_clear(l))
       ELSE Goto(p, "rev_try", [l EXCEPT !.rev_lot = fetch_credit_lot_by_id(l.rev_lot_id),
                                         !.rev_i = l.rev_i + 1])
    /\ UNCHANGED keep_all

\* ------------------------------------- list_credit_lots_for_consumption
\* lines 468-483: the user's active lots of one type, ordered; refund-frozen packs filtered out
select_lots_for_consumption(user_id, lot_type, exclude_pack_source_keys) ==
    order_lots({lots[i] : i \in {j \in DOMAIN lots :
        /\ lots[j].user = user_id
        /\ lots[j].lot_type = lot_type
        /\ lots[j].status = "active"
        /\ ~(lot_type = "pack_order" /\ lots[j].source_key \in exclude_pack_source_keys)}})

\* lines 485-501: walk the selected rows up to the next expired one (which costs an update);
\* rows with nothing remaining are skipped
RECURSIVE lst_scan(_, _, _)
lst_scan(rows, out, at) ==
    IF rows = <<>> THEN [rows |-> <<>>, out |-> out]
    ELSE IF is_expired(Head(rows), at) THEN [rows |-> rows, out |-> out]
    ELSE lst_scan(Tail(rows),
                  IF remaining_seconds_from_lot(Head(rows)) <= 0 THEN out ELSE Append(out, Head(rows)),
                  at)

lst_continue(p, l, sc) ==
    IF sc.rows = <<>>
    THEN Goto(p, "ccl_loop", [l EXCEPT !.lst_rows = <<>>, !.lst_out = sc.out, !.ret = 0])
    ELSE Goto(p, "lst_expire", [l EXCEPT !.lst_rows = sc.rows, !.lst_out = sc.out])

\* ---------------------------------------------------- consume_credit_lots
ccl_clear(l) == [l EXCEPT !.lst_rows = <<>>, !.lst_out = <<>>, !.ccl_user = "", !.ccl_type = "",
                          !.ccl_now = 0, !.ccl_exclude = {}, !.ccl_remaining = 0, !.ccl_total = 0]

\* lines 515-524 and the select of list_credit_lots_for_consumption
consume_credit_lots_start(p) ==
    /\ pc[p] = "ccl_start"
    /\ LET l == loc[p] IN
       IF l.ccl_remaining <= 0
       THEN Return(p, 0, ccl_clear(l))
       ELSE lst_continue(p, l, lst_scan(select_lots_for_consumption(l.ccl_user, l.ccl_type, l.ccl_exclude),
                                        <<>>, l.ccl_now))
    /\ UNCHANGED keep_all

\* lines 487-494: an expired row is marked expired by id, whatever its state is by now
list_credit_lots_for_consumption_expire(p) ==
    /\ pc[p] = "lst_expire"
    /\ LET l == loc[p] IN
       /\ lots' = update_credit_lot_expired(Head(l.lst_rows).id)
       /\ lst_continue(p, l, lst_scan(Tail(l.lst_rows), l.lst_out, l.ccl_now))
    /\ UNCHANGED returned
    /\ UNCHANGED keep_but_lots

\* lines 525-542: the loop over the listed lots; entered with ret = what the last lot gave
consume_credit_lots_loop(p) ==
    /\ pc[p] = "ccl_loop"
    /\ LET l == loc[p]
           total == IF l.ret > 0 THEN l.ccl_total + l.ret ELSE l.ccl_total
           remaining == IF l.ret > 0 THEN l.ccl_remaining - l.ret ELSE l.ccl_remaining
       IN
       IF l.lst_out = <<>> \/ remaining <= 0
       THEN Return(p, total, ccl_clear(l))
       ELSE Call(p, "cbi_fetch", "ccl_loop",
                 [l EXCEPT !.ccl_total = total, !.ccl_remaining = remaining,
                           !.lst_out = Tail(l.lst_out),
                           !.cbi_lot_id = Head(l.lst_out).id, !.cbi_seconds = remaining,
                           !.cbi_now = l.ccl_now])
    /\ UNCHANGED keep_all

\* -------------------------------------------------- summarize_credit_lots
\* lines 666-679: the user's active lots of both types, ordered
select_lots_for_summary(user_id) ==
    {lots[i] : i \in {j \in DOMAIN lots :
        /\ lots[j].user = user_id
        /\ lots[j].status = "active"
        /\ lots[j].lot_type \in {"subscription_cycle", "pack_order"}}}

\* exclude_pack_source_keys, as application/billing.py passes it: the packs of
\* refund-pending orders do not count
summarize_excluding(rows, exclude_pack_source_keys) ==
    {r \in rows : ~(r.lot_type = "pack_order" /\ r.source_key \in exclude_pack_source_keys)}

\* lines 684-706: walk the rows up to the next expired one, adding up what remains
RECURSIVE sum_scan(_, _, _)
sum_scan(rows, acc, at) ==
    IF rows = <<>> \/ is_expired(Head(rows), at) THEN [rows |-> rows, acc |-> acc]
    ELSE LET r == Head(rows)
             remaining == remaining_seconds_from_lot(r)
         IN sum_scan(Tail(rows),
                IF remaining <= 0 THEN acc
                ELSE IF r.lot_type = "subscription_cycle" THEN [acc EXCEPT !.sub = @ + remaining]
                ELSE IF r.lot_type = "pack_order"
                THEN [acc EXCEPT !.pack = @ + remaining,
                                 !.exp = IF r.expires # NoExpiry /\ (acc.exp = NoExpiry \/ r.expires < acc.exp)
                                         THEN r.expires ELSE acc.exp]
                ELSE acc,
                at)

\* the result stays in sum_sub, sum_pack, sum_exp for the caller
sum_continue(p, l, sc) ==
    LET l2 == [l EXCEPT !.sum_rows = sc.rows, !.sum_sub = sc.acc.sub, !.sum_pack = sc.acc.pack,
                        !.sum_exp = sc.acc.exp]
    IN IF sc.rows = <<>>
       THEN Return(p, 0, [l2 EXCEPT !.sum_user = "", !.sum_now = 0, !.sum_exclude = {}])
       ELSE Goto(p, "sum_expire", l2)

\* lines 665-679, and the rows up to the first expired one
summarize_credit_lots_select(p) ==
    /\ pc[p] = "sum_select"
    /\ LET l == loc[p] IN
       sum_continue(p, l, sum_scan(order_lots(summarize_excluding(select_lots_for_summary(l.sum_user),
                                                                   l.sum_exclude)),
                                   [sub |-> 0, pack |-> 0, exp |-> NoExpiry], l.sum_now))
    /\ UNCHANGED keep_all

\* lines 686-692
summarize_credit_lots_expire(p) ==
    /\ pc[p] = "sum_expire"
    /\ LET l == loc[p] IN
       /\ lots' = update_credit_lot_expired(Head(l.sum_rows).id)
       /\ sum_continue(p, l, sum_scan(Tail(l.sum_rows),
                                      [sub |-> l.sum_sub, pack |-> l.sum_pack, exp |-> l.sum_exp], l.sum_now))
    /\ UNCHANGED returned
    /\ UNCHANGED keep_but_lots

sum_clear(l) == [l EXCEPT !.sum_sub = 0, !.sum_pack = 0, !.sum_exp = NoExpiry]

\* ------------------------------------------------------------------ plans
\* table plans, read-only here: per provider product id the plan's type, quota and pack lifetime
PackExpiry == 100000                     \* pack_expiry_days of the pack plans, in seconds
FreePeriod == 2592000                    \* timedelta(days=30), in seconds
Plans == [internal_free |-> [plan_type |-> "subscription", quota_seconds |-> 1, rollover_cap_seconds |-> 0],
          pack_small    |-> [plan_type |-> "pack", quota_seconds |-> 3, rollover_cap_seconds |-> 0],
          pack_600      |-> [plan_type |-> "pack", quota_seconds |-> 600, rollover_cap_seconds |-> 0],
          sub_monthly   |-> [plan_type |-> "subscription", quota_seconds |-> 2, rollover_cap_seconds |-> 1]]

fetch_plan_by_product_id(product_id) == Plans[product_id]

\* ---------------------------------------------------------- upsert_credit_lot
\* the row (lot_type, source_key) identifies, if there is one
lot_id_by_source(lot_type, source_key) ==
    IF \E i \in DOMAIN lots : lots[i].lot_type = lot_type /\ lots[i].source_key = source_key
    THEN CHOOSE i \in DOMAIN lots : lots[i].lot_type = lot_type /\ lots[i].source_key = source_key
    ELSE 0

\* fetch_credit_lot_by_source: the lot of (lot_type, source_key), or None
fetch_credit_lot_by_source(lot_type, source_key) ==
    fetch_credit_lot_by_id(lot_id_by_source(lot_type, source_key))

\* A plausible slip: the upsert payload carries the counters, so a repeated grant starts the lot afresh.
upsert_credit_lot_resetting(user_id, lot_type, source_key, granted_seconds, pack_expires_at) ==
    LET i == lot_id_by_source(lot_type, source_key) IN
    IF i # 0
    THEN [lots EXCEPT ![i].user = user_id, ![i].granted = granted_seconds,
                      ![i].expires = pack_expires_at, ![i].status = "active",
                      ![i].consumed = 0, ![i].revoked = 0]
    ELSE Append(lots, [id |-> Len(lots) + 1, user |-> user_id, lot_type |-> lot_type,
                       source_key |-> source_key, granted |-> granted_seconds, consumed |-> 0,
                       revoked |-> 0, expires |-> pack_expires_at, status |-> "active"])

\* upsert on (lot_type, source_key): an existing row takes the payload's columns (user, granted,
\* expiry, status) and keeps its counters; a new row starts with the column defaults
upsert_credit_lot(user_id, lot_type, source_key, granted_seconds, pack_expires_at) ==
    LET i == lot_id_by_source(lot_type, source_key) IN
    IF i # 0
    THEN [lots EXCEPT ![i].user = user_id, ![i].granted = granted_seconds,
                      ![i].expires = pack_expires_at, ![i].status = "active"]
    ELSE Append(lots, [id |-> Len(lots) + 1, user |-> user_id, lot_type |-> lot_type,
                       source_key |-> source_key, granted |-> granted_seconds, consumed |-> 0,
                       revoked |-> 0, expires |-> pack_expires_at, status |-> "active"])

\* the history of a lot starts when its row is inserted
returned_after(new_lots) == IF Len(new_lots) > Len(lots) THEN Append(returned, 0) ELSE returned

\* ------------------------------------------------- entitlement row writes
\* A plausible slip: the two balances land in each other's column.
update_entitlement_snapshot_swapped(user_id, subscription_available_seconds, pack_available_seconds, pack_expires_at, debt_seconds, is_blocked) ==
    [ent EXCEPT ![user_id] = [exists |-> TRUE, sub_avail |-> pack_available_seconds,
                              pack_avail |-> subscription_available_seconds,
                              pack_expires |-> pack_expires_at,
                              debt |-> debt_seconds, blocked |-> is_blocked]]

\* update_entitlement_snapshot: upsert of the balance columns, debt and is_blocked
update_entitlement_snapshot(user_id, subscription_available_seconds, pack_available_seconds, pack_expires_at, debt_seconds, is_blocked) ==
    [ent EXCEPT ![user_id] = [exists |-> TRUE, sub_avail |-> subscription_available_seconds,
                              pack_avail |-> pack_available_seconds, pack_expires |-> pack_expires_at,
                              debt |-> debt_seconds, blocked |-> is_blocked]]

\* upsert_subscription_entitlement_state: upsert of the subscription columns; debt and
\* is_blocked are not in the payload
upsert_subscription_entitlement_state(user_id, subscription_available_seconds) ==
    [ent EXCEPT ![user_id] = [(IF ent[user_id].exists THEN ent[user_id] ELSE NewEnt)
                                 EXCEPT !.sub_avail = subscription_available_seconds]]

\* -------------------------------- usage.py: _sync_entitlement_snapshot
\* lines 68-73: the call starts with summarize_credit_lots and comes back to the upsert
call_usage_sync(p, back, l, user_id, debt_seconds) ==
    /\ pc' = [pc EXCEPT ![p] = "sum_select"]
    /\ stack' = [stack EXCEPT ![p] = <<"usy_write">> \o back \o @]
    /\ loc' = [loc EXCEPT ![p] = [l EXCEPT !.usy_user = user_id, !.usy_debt = debt_seconds,
                                           !.sum_user = user_id, !.sum_now = now, !.sum_exclude = {}]]

\* A plausible slip: the blocked flag is computed with > instead of >=.
blocked_flag_strict(debt_seconds, debt_cap_seconds) == debt_seconds > debt_cap_seconds

\* `debt >= settings.billing_debt_cap_seconds`, as both syncs and adjust_entitlement_debt write it
blocked_flag(debt_seconds, debt_cap_seconds) == debt_seconds >= debt_cap_seconds

\* lines 74-94: the snapshot is written with the debt the caller handed in
usage_sync_entitlement_snapshot_write(p) ==
    /\ pc[p] = "usy_write"
    /\ LET l == loc[p] IN
       /\ ent' = update_entitlement_snapshot(l.usy_user, l.sum_sub, l.sum_pack, l.sum_exp,
                                             l.usy_debt, blocked_flag(l.usy_debt, cap))
       /\ Return(p, 0, [sum_clear(l) EXCEPT !.usy_user = "", !.usy_debt = 0])
    /\ UNCHANGED debt_due
    /\ UNCHANGED keep_but_ent

\* --------------------------------------------------------------- raising
\* An exception unwinds the calls of the process: up to handle_polar_webhook's
\* except clause if the webhook's try block is on the stack (its "wh_mark" label),
\* else out of the top-level call, whose caller holds it (exc) until its next call.
RECURSIVE after_label(_, _)
after_label(st, label) ==
    IF st = <<>> THEN <<>>
    ELSE IF Head(st) = label THEN Tail(st)
    ELSE after_label(Tail(st), label)

in_stack(st, label) == \E i \in DOMAIN st : st[i] = label

Raise(p, message_len) ==
    IF in_stack(stack[p], "wh_mark")
    THEN /\ pc' = [pc EXCEPT ![p] = "wh_failed"]
         /\ stack' = [stack EXCEPT ![p] = after_label(@, "wh_mark")]
         /\ loc' = [loc EXCEPT ![p] = [NoLocals EXCEPT !.wh_event = loc[p].wh_event,
                                                       !.wh_type = loc[p].wh_type,
                                                       !.wh_inserted = loc[p].wh_inserted,
                                                       !.exc = message_len]]
    ELSE /\ pc' = [pc EXCEPT ![p] = "idle"]
         /\ stack' = [stack EXCEPT ![p] = <<>>]
         /\ loc' = [loc EXCEPT ![p] = [NoLocals EXCEPT !.exc = message_len]]

\* the return of a top-level call: its frame is gone
Finish(p) ==
    /\ pc' = [pc EXCEPT ![p] = Head(stack[p])]
    /\ stack' = [stack EXCEPT ![p] = Tail(@)]
    /\ loc' = [loc EXCEPT ![p] = NoLocals]

\* ------------------------------------- usage.py: _ensure_free_entitlement
FreeErrorLen == 44                         \* len("Failed to initialize free tier entitlements.")
free_source_key == "internal_free:day0"    \* f"internal_free:{period_start.date().isoformat()}"

\* lines 98-113: the free plan's lot for the period starting today
ensure_free_entitlement_lot(p) ==
    /\ pc[p] = "efe_lot"
    /\ LET l == loc[p]
           free_plan == fetch_plan_by_product_id("internal_free")
           new_lots == upsert_credit_lot(l.efe_user, "subscription_cycle", free_source_key,
                                         free_plan.quota_seconds, now + FreePeriod)
       IN /\ lots' = new_lots
          /\ returned' = returned_after(new_lots)
          /\ Goto(p, "efe_state", l)
    /\ UNCHANGED keep_but_lots

\* lines 115-132: the subscription columns, then a sync with debt_seconds=0
ensure_free_entitlement_state(p) ==
    /\ pc[p] = "efe_state"
    /\ LET l == loc[p]
           free_plan == fetch_plan_by_product_id("internal_free")
       IN /\ ent' = upsert_subscription_entitlement_state(l.efe_user, free_plan.quota_seconds)
          /\ call_usage_sync(p, <<"efe_fetch">>, l, l.efe_user, 0)
    /\ UNCHANGED debt_due
    /\ UNCHANGED keep_but_ent

\* lines 134-137
ensure_free_entitlement_fetch(p) ==
    /\ pc[p] = "efe_fetch"
    /\ LET l == loc[p]
           entitlement == fetch_entitlement(l.efe_user)
       IN IF ~entitlement.exists
          THEN Raise(p, FreeErrorLen)
          ELSE Return(p, entitlement.debt, [l EXCEPT !.efe_user = "", !.efe_row = entitlement])
    /\ UNCHANGED keep_all

\* --------------------------------------------- usage.py: record_usage_for_job
\* lines 217-225: consume_credit_lots(subscription_cycle, duration)
ruj_consume(p, l, lot_type, seconds, back) ==
    /\ pc' = [pc EXCEPT ![p] = "ccl_start"]
    /\ stack' = [stack EXCEPT ![p] = <<back>> \o @]
    /\ loc' = [loc EXCEPT ![p] = [l EXCEPT !.ccl_user = l.ruj_user, !.ccl_type = lot_type,
                                           !.ccl_now = now, !.ccl_exclude = {},
                                           !.ccl_remaining = seconds, !.ccl_total = 0]]

\* lines 213-215: the entitlement is read once, here
record_usage_for_job_fetch(p) ==
    /\ pc[p] = "ruj_fetch"
    /\ LET l == loc[p]
           entitlement == fetch_entitlement(l.ruj_user)
       IN IF entitlement.exists
          THEN ruj_consume(p, [l EXCEPT !.ruj_debt0 = entitlement.debt], "subscription_cycle",
                           l.ruj_remaining, "ruj_sub_done")
          ELSE Call(p, "efe_lot", "ruj_ent", [l EXCEPT !.efe_user = l.ruj_user])
    /\ UNCHANGED keep_all

\* line 215: what _ensure_free_entitlement returned is the entitlement of the call
record_usage_for_job_ent(p) ==
    /\ pc[p] = "ruj_ent"
    /\ ruj_consume(p, [loc[p] EXCEPT !.ruj_debt0 = loc[p].efe_row.debt, !.efe_row = NoEnt], "subscription_cycle",
                   loc[p].ruj_remaining, "ruj_sub_done")
    /\ UNCHANGED keep_all

\* lines 255-264: new_debt = the debt read at line 213 + what no lot covered
ruj_sync(p, l, remaining) ==
    LET unmet_seconds == Max2(remaining, 0)
        new_debt == l.ruj_debt0 + unmet_seconds
    IN /\ call_usage_sync(p, <<"ruj_end">>, [l EXCEPT !.ruj_remaining = remaining], l.ruj_user, new_debt)
       /\ debt_due' = [debt_due EXCEPT ![l.ruj_user] = @ + unmet_seconds]

\* A plausible slip: the part a lot type gave is logged but not taken off what is left to cover.
remaining_unreduced(remaining, consumed) == remaining

\* lines 226-234 and 246-254: `remaining -= consumed` inside `if consumed > 0`
remaining_after(remaining, consumed) == IF consumed > 0 THEN remaining - consumed ELSE remaining

\* lines 226-244: the ledger entry of the subscription part, then the pack part if seconds remain
record_usage_for_job_sub_done(p) ==
    /\ pc[p] = "ruj_sub_done"
    /\ LET l == loc[p]
           consumed_subscription == l.ret
           remaining == remaining_after(l.ruj_remaining, consumed_subscription)
       IN /\ usage_ledger' = IF consumed_subscription > 0
                             THEN Append(usage_ledger, [user |-> l.ruj_user, seconds |-> consumed_subscription,
                                                        source |-> "subscription"])
                             ELSE usage_ledger
          /\ IF remaining > 0
             THEN /\ ruj_consume(p, [l EXCEPT !.ruj_remaining = remaining], "pack_order", remaining,
                                 "ruj_pack_done")
                  /\ UNCHANGED debt_due
             ELSE ruj_sync(p, l, remaining)
    /\ UNCHANGED <<lots, ent, orders, events, refunds, cap, now, returned, trace>>

\* lines 245-264: the ledger entry of the pack part, then the sync that writes the debt
record_usage_for_job_pack_done(p) ==
    /\ pc[p] = "ruj_pack_done"
    /\ LET l == loc[p]
           consumed_pack == l.ret
           remaining == remaining_after(l.ruj_remaining, consumed_pack)
       IN /\ usage_ledger' = IF consumed_pack > 0
                             THEN Append(usage_ledger, [user |-> l.ruj_user, seconds |-> consumed_pack,
                                                        source |-> "pack"])
                             ELSE usage_ledger
          /\ ruj_sync(p, l, remaining)
    /\ UNCHANGED <<lots, ent, orders, events, refunds, cap, now, returned, trace>>

\* the call returns None
record_usage_for_job_end(p) ==
    /\ pc[p] = "ruj_end"
    /\ Finish(p)
    /\ UNCHANGED keep_all

\* lines 200-212: a worker reports the duration of a finished job
CallRecordUsage(p, user_id, duration_seconds) ==
    /\ pc[p] = "idle"
    /\ IF duration_seconds <= 0
       THEN UNCHANGED <<pc, stack, loc>>
       ELSE Call(p, "ruj_fetch", "idle",
                 [NoLocals EXCEPT !.ruj_user = user_id, !.ruj_duration = duration_seconds,
                                  !.ruj_remaining = duration_seconds])
    /\ UNCHANGED keep_all

RecordUsage(p) ==
    \/ record_usage_for_job_fetch(p)
    \/ record_usage_for_job_ent(p)
    \/ record_usage_for_job_sub_done(p)
    \/ record_usage_for_job_pack_done(p)
    \/ record_usage_for_job_end(p)

\* --------------------------------------------- usage.py: ensure_usage_allowed
NoDuration == -1                         \* duration_seconds=None
BlockedErrorLen == 83                    \* len("Your account is temporarily blocked ... top up credits.")
InsufficientErrorLen == 66               \* len("Insufficient credits for this video. ... buy a pack.")
NoCreditsErrorLen == 58                  \* len("You have no remaining credits. Please upgrade to continue.")

\* A plausible slip: the projected debt is refused from the cap on, not above it.
usage_error_at_cap(row, duration_seconds, debt_cap_seconds) ==
    LET available_now == row.sub_avail + row.pack_avail IN
    IF row.blocked THEN BlockedErrorLen
    ELSE IF duration_seconds # NoDuration /\ duration_seconds > 0
            /\ row.debt + Max2(duration_seconds - available_now, 0) >= debt_cap_seconds
    THEN InsufficientErrorLen
    ELSE IF duration_seconds = NoDuration /\ available_now <= 0 /\ row.debt >= debt_cap_seconds
    THEN NoCreditsErrorLen
    ELSE 0

\* lines 273-286: the error the snapshot and the duration lead to, 0 for none
usage_error(row, duration_seconds, debt_cap_seconds) ==
    LET available_now == row.sub_avail + row.pack_avail IN
    IF row.blocked THEN BlockedErrorLen
    ELSE IF duration_seconds # NoDuration /\ duration_seconds > 0
            /\ row.debt + Max2(duration_seconds - available_now, 0) > debt_cap_seconds
    THEN InsufficientErrorLen
    ELSE IF duration_seconds = NoDuration /\ available_now <= 0 /\ row.debt >= debt_cap_seconds
    THEN NoCreditsErrorLen
    ELSE 0

\* the checks on the snapshot the call holds
eua_decide(p, row, duration_seconds) ==
    IF usage_error(row, duration_seconds, cap) > 0
    THEN Raise(p, usage_error(row, duration_seconds, cap))
    ELSE Finish(p)

\* get_usage_snapshot, lines 148-150: the user's row; a user without one gets the free tier
\* first.  The checks of lines 273-286 follow the read without a request in between.
ensure_usage_allowed_fetch(p) ==
    /\ pc[p] = "eua_fetch"
    /\ LET l == loc[p]
           entitlement == fetch_entitlement(l.eua_user)
       IN IF entitlement.exists
          THEN eua_decide(p, entitlement, l.eua_duration)
          ELSE Call(p, "efe_lot", "eua_ent", [l EXCEPT !.efe_user = l.eua_user])
    /\ UNCHANGED keep_all

\* line 150: what _ensure_free_entitlement returned is the snapshot of the call
ensure_usage_allowed_ent(p) ==
    /\ pc[p] = "eua_ent"
    /\ eua_decide(p, loc[p].efe_row, loc[p].eua_duration)
    /\ UNCHANGED keep_all

EnsureUsageAllowed(p) ==
    \/ ensure_usage_allowed_fetch(p)
    \/ ensure_usage_allowed_ent(p)

\* a job of this duration, or of a duration not known yet, is about to start
CallEnsureUsageAllowed(p, user_id, duration_seconds) ==
    /\ pc[p] = "idle"
    /\ Call(p, "eua_fetch", "idle", [NoLocals EXCEPT !.eua_user = user_id, !.eua_duration = duration_seconds])
    /\ UNCHANGED keep_all

EnsureFree(p) ==
    \/ ensure_free_entitlement_lot(p)
    \/ ensure_free_entitlement_state(p)
    \/ ensure_free_entitlement_fetch(p)

ConsumeLots(p) ==
    \/ consume_credit_lots_start(p)
    \/ list_credit_lots_for_consumption_expire(p)
    \/ consume_credit_lots_loop(p)

Summarize(p) ==
    \/ summarize_credit_lots_select(p)
    \/ summarize_credit_lots_expire(p)

\* ---------------------------- application/billing.py: _sync_entitlement_snapshot
\* the first request of the sync is fetch_entitlement; debt_seconds = NoDebt is the default None
call_billing_sync(p, back, l, user_id, debt_seconds) ==
    /\ pc' = [pc EXCEPT ![p] = "bsy_fetch"]
    /\ stack' = [stack EXCEPT ![p] = back \o @]
    /\ loc' = [loc EXCEPT ![p] = [l EXCEPT !.bsy_user = user_id, !.bsy_debt = debt_seconds]]

\* lines 126-129: the debt to write is the caller's, or else the one stored now
billing_sync_entitlement_snapshot_fetch(p) ==
    /\ pc[p] = "bsy_fetch"
    /\ LET l == loc[p]
           entitlement == fetch_entitlement(l.bsy_user)
           stored == IF entitlement.exists THEN entitlement.debt ELSE 0
           effective_debt == IF l.bsy_debt # NoDebt THEN Max2(l.bsy_debt, 0) ELSE stored
       IN Goto(p, "bsy_pending", [l EXCEPT !.bsy_eff = effective_debt])
    /\ UNCHANGED keep_all

\* fetch_polar_order_ids_refund_pending
fetch_polar_order_ids_refund_pending(user_id) ==
    {o \in OrderIds : orders[o].user = user_id /\ orders[o].status = "refund_pending"}

\* lines 131-139: the refund-pending orders, whose packs summarize_credit_lots is told to leave out
billing_sync_entitlement_snapshot_pending(p) ==
    /\ pc[p] = "bsy_pending"
    /\ LET l == loc[p] IN
       /\ pc' = [pc EXCEPT ![p] = "sum_select"]
       /\ stack' = [stack EXCEPT ![p] = <<"bsy_write">> \o @]
       /\ loc' = [loc EXCEPT ![p] = [l EXCEPT !.sum_user = l.bsy_user, !.sum_now = now,
                                              !.sum_exclude = fetch_polar_order_ids_refund_pending(l.bsy_user)]]
    /\ UNCHANGED keep_all

\* lines 140-151
billing_sync_entitlement_snapshot_write(p) ==
    /\ pc[p] = "bsy_write"
    /\ LET l == loc[p] IN
       /\ ent' = update_entitlement_snapshot(l.bsy_user, l.sum_sub, l.sum_pack, l.sum_exp,
                                             l.bsy_eff, blocked_flag(l.bsy_eff, cap))
       /\ Return(p, 0, [sum_clear(l) EXCEPT !.bsy_user = "", !.bsy_debt = NoDebt, !.bsy_eff = 0])
    /\ UNCHANGED debt_due
    /\ UNCHANGED keep_but_ent

BillingSync(p) ==
    \/ billing_sync_entitlement_snapshot_fetch(p)
    \/ billing_sync_entitlement_snapshot_pending(p)
    \/ billing_sync_entitlement_snapshot_write(p)

\* ------------------------------------------------- adjust_entitlement_debt
AdjustRetries == 5                       \* adjust_entitlement_debt(max_retries=5)
AdjustErrorLen == 60                     \* len("Failed to adjust entitlement debt due to concurrent updates.")

adj_clear(l) == [l EXCEPT !.adj_user = "", !.adj_delta = 0, !.adj_i = 0, !.adj_cur = 0]

\* lines 793-805: the read of each attempt; a missing row is inserted bare and read again
adjust_entitlement_debt_fetch(p) ==
    /\ pc[p] \in {"adj_fetch", "adj_insert", "adj_refetch"}
    /\ LET l == loc[p]
           entitlement == fetch_entitlement(l.adj_user)
       IN
       IF pc[p] = "adj_insert"
       THEN /\ ent' = IF entitlement.exists THEN ent ELSE [ent EXCEPT ![l.adj_user] = NewEnt]
            /\ Goto(p, "adj_refetch", l)
       ELSE /\ ent' = ent
            /\ IF pc[p] = "adj_fetch" /\ l.adj_delta = 0
               THEN Return(p, IF entitlement.exists THEN entitlement.debt ELSE 0, adj_clear(l))
               ELSE IF pc[p] = "adj_fetch" /\ l.adj_i >= AdjustRetries
               THEN Raise(p, AdjustErrorLen)
               ELSE IF entitlement.exists
               THEN Goto(p, "adj_cas", [l EXCEPT !.adj_cur = entitlement.debt])
               ELSE IF pc[p] = "adj_fetch"
               THEN Goto(p, "adj_insert", l)
               ELSE Goto(p, "adj_fetch", [l EXCEPT !.adj_i = l.adj_i + 1])
    /\ UNCHANGED debt_due
    /\ UNCHANGED keep_but_ent

\* A plausible slip: the update is keyed by the user alone.
debt_row_exists(user_id, current_debt) == ent[user_id].exists

\* lines 819-820: .eq("user_id", user_id).eq("debt_seconds", current_debt)
debt_is_current(user_id, current_debt) == ent[user_id].exists /\ ent[user_id].debt = current_debt

\* lines 805-828: the conditional update WHERE debt_seconds = current_debt
adjust_entitlement_debt_cas(p) ==
    /\ pc[p] = "adj_cas"
    /\ LET l == loc[p]
           new_debt == Max2(l.adj_cur + l.adj_delta, 0)
       IN
       IF debt_is_current(l.adj_user, l.adj_cur)
       THEN /\ ent' = [ent EXCEPT ![l.adj_user].debt = new_debt,
                                  ![l.adj_user].blocked = blocked_flag(new_debt, cap)]
            /\ Return(p, new_debt, adj_clear(l))
       ELSE /\ ent' = ent
            /\ Goto(p, "adj_fetch", [l EXCEPT !.adj_i = l.adj_i + 1])
    /\ UNCHANGED debt_due
    /\ UNCHANGED keep_but_ent

\* ------------------------- application/billing.py: _apply_debt_paydown_for_lot
pdn_clear(l) == [l EXCEPT !.pdn_user = "", !.pdn_lot = 0, !.pdn_debt = 0]

\* lines 161-172: read the debt; if there is any, consume that much from the lot
apply_debt_paydown_for_lot_fetch(p) ==
    /\ pc[p] = "pdn_fetch"
    /\ LET l == loc[p]
           entitlement == fetch_entitlement(l.pdn_user)
           debt_seconds == IF entitlement.exists THEN entitlement.debt ELSE 0
       IN IF debt_seconds <= 0
          THEN Return(p, 0, pdn_clear(l))
          ELSE Call(p, "cbi_fetch", "pdn_adjust",
                    [l EXCEPT !.pdn_debt = debt_seconds, !.cbi_lot_id = l.pdn_lot,
                              !.cbi_seconds = debt_seconds, !.cbi_now = now])
    /\ UNCHANGED keep_all

\* lines 173-182: what the lot gave is taken off the debt by adjust_entitlement_debt,
\* whose result is the result of the paydown
apply_debt_paydown_for_lot_adjust(p) ==
    /\ pc[p] = "pdn_adjust"
    /\ LET l == loc[p]
           consumed_for_paydown == l.ret
       IN IF consumed_for_paydown <= 0
          THEN /\ Return(p, l.pdn_debt, pdn_clear(l))
               /\ UNCHANGED debt_due
          ELSE /\ Goto(p, "adj_fetch", [pdn_clear(l) EXCEPT !.adj_user = l.pdn_user,
                                                            !.adj_delta = 0 - consumed_for_paydown,
                                                            !.adj_i = 0])
               /\ debt_due' = [debt_due EXCEPT ![l.pdn_user] = @ - consumed_for_paydown]
    /\ UNCHANGED keep_but_ent
    /\ UNCHANGED ent

Paydown(p) ==
    \/ apply_debt_paydown_for_lot_fetch(p)
    \/ apply_debt_paydown_for_lot_adjust(p)
    \/ adjust_entitlement_debt_fetch(p)
    \/ adjust_entitlement_debt_cas(p)

\* ------------------------------------------------------ billing_orders writes
PaidCents == 7                           \* total_amount of the order payloads, in cents

\* upsert_billing_order: upsert on polar_order_id; the payload carries user, plan type,
\* amount and status, so an existing row takes them too; refunded_amount_cents is not in it
upsert_billing_order(polar_order_id, user_id, plan_type, paid_amount_cents, status) ==
    [orders EXCEPT ![polar_order_id] =
        [orders[polar_order_id] EXCEPT !.user = user_id, !.plan_type = plan_type,
                                       !.paid = paid_amount_cents, !.status = status]]

\* A plausible slip: the conditional move forgets its status filter.
transition_any_status(order_id, from_status) == orders[order_id].status # "missing"

\* transition_billing_order_status: the WHERE clause of the conditional update
transition_billing_order_status(order_id, from_status) ==
    /\ orders[order_id].status # "missing"
    /\ orders[order_id].status = from_status

orf_clear(l) == [l EXCEPT !.orf_order = "", !.orf_total = 0, !.orf_user = "", !.orf_refunded = 0,
                          !.orf_status = "", !.orf_revoke = FALSE, !.orf_delta = 0]

\* ----------------------------- application/billing.py: _handle_order_paid
op_clear(l) == [l EXCEPT !.op_user = "", !.op_order = "", !.op_product = "", !.op_lot = 0]

\* lines 463-483: the plan of the product, then the order row with status paid.  A
\* subscription order (lines 523-528) only re-syncs the snapshot.
handle_order_paid_order(p) ==
    /\ pc[p] = "op_order"
    /\ LET l == loc[p]
           plan == fetch_plan_by_product_id(l.op_product)
       IN /\ orders' = upsert_billing_order(l.op_order, l.op_user, plan.plan_type, PaidCents, "paid")
          /\ IF plan.plan_type = "pack"
             THEN Goto(p, "op_lot", l)
             ELSE call_billing_sync(p, <<>>, op_clear(l), l.op_user, NoDebt)
    /\ UNCHANGED keep_but_orders

\* lines 493-514: the pack's lot, keyed by the order id, then the paydown from that lot
handle_order_paid_lot(p) ==
    /\ pc[p] = "op_lot"
    /\ LET l == loc[p]
           plan == fetch_plan_by_product_id(l.op_product)
           new_lots == upsert_credit_lot(l.op_user, "pack_order", l.op_order, plan.quota_seconds,
                                         now + PackExpiry)
           lot_id == IF Len(new_lots) > Len(lots) THEN Len(new_lots)
                     ELSE lot_id_by_source("pack_order", l.op_order)
       IN /\ lots' = new_lots
          /\ returned' = returned_after(new_lots)
          /\ Call(p, "pdn_fetch", "op_sync", [l EXCEPT !.op_lot = lot_id, !.pdn_user = l.op_user,
                                                       !.pdn_lot = lot_id])
    /\ UNCHANGED keep_but_lots

\* lines 515-521: the sync is handed the debt the paydown returned
handle_order_paid_sync(p) ==
    /\ pc[p] = "op_sync"
    /\ call_billing_sync(p, <<>>, op_clear(loc[p]), loc[p].op_user, loc[p].ret)
    /\ UNCHANGED keep_all

OrderPaid(p) ==
    \/ handle_order_paid_order(p)
    \/ handle_order_paid_lot(p)
    \/ handle_order_paid_sync(p)

\* ------------------------ application/billing.py: _handle_subscription_event
\* the event types of line 396-404 that the deliveries of the model carry
SubscriptionTypes == {"subscription.active", "subscription.updated", "subscription.revoked"}

sub_clear(l) == [l EXCEPT !.sub_type = "", !.sub_user = "", !.sub_product = "", !.sub_cycle = "",
                          !.sub_end = 0, !.sub_rollover = 0]

\* expire_active_subscription_lots: one update WHERE user_id, lot_type = subscription_cycle
\* and status = active
expire_active_subscription_lots(user_id) ==
    [i \in DOMAIN lots |->
        IF lots[i].user = user_id /\ lots[i].lot_type = "subscription_cycle" /\ lots[i].status = "active"
        THEN [lots[i] EXCEPT !.status = "expired"] ELSE lots[i]]

\* line 671: rollover_seconds = min(current_subscription_remaining, rollover_cap)
rollover_of(current_subscription_remaining, rollover_cap) == Min2(current_subscription_remaining, rollover_cap)

\* lines 643-670: a revoked subscription expires the user's subscription lots; otherwise the
\* lot of the cycle (source_key = subscription id : period start) is looked up, and if there
\* is none the handler goes on to summarize_credit_lots
handle_subscription_event_lot(p) ==
    /\ pc[p] = "sub_lot"
    /\ LET l == loc[p]
           plan == fetch_plan_by_product_id(l.sub_product)
           existing_cycle_lot == fetch_credit_lot_by_source("subscription_cycle", l.sub_cycle)
       IN IF l.sub_type = "subscription.revoked"
          THEN /\ lots' = expire_active_subscription_lots(l.sub_user)
               /\ Goto(p, "sub_state", [l EXCEPT !.sub_rollover = 0, !.ret = NoDebt])
          ELSE /\ lots' = lots
               /\ IF existing_cycle_lot.status # "missing"
                  THEN Goto(p, "sub_state",
                            [l EXCEPT !.sub_rollover = Max2(existing_cycle_lot.granted - plan.quota_seconds, 0),
                                      !.ret = NoDebt])
                  ELSE Call(p, "sum_select", "sub_rollover",
                            [l EXCEPT !.sum_user = l.sub_user, !.sum_now = now, !.sum_exclude = {}])
    /\ UNCHANGED returned
    /\ UNCHANGED keep_but_lots

\* lines 666-672: what the user's subscription lots have left, capped, is the rollover; then
\* expire_active_subscription_lots
handle_subscription_event_expire(p) ==
    /\ pc[p] = "sub_rollover"
    /\ LET l == loc[p]
           plan == fetch_plan_by_product_id(l.sub_product)
           current_subscription_remaining == l.sum_sub
       IN /\ lots' = expire_active_subscription_lots(l.sub_user)
          /\ Goto(p, "sub_upsert",
                  [sum_clear(l) EXCEPT !.sub_rollover = rollover_of(current_subscription_remaining,
                                                                     plan.rollover_cap_seconds)])
    /\ UNCHANGED returned
    /\ UNCHANGED keep_but_lots

\* lines 674-689: the lot of the cycle is upserted with quota + rollover, then the paydown
handle_subscription_event_upsert(p) ==
    /\ pc[p] = "sub_upsert"
    /\ LET l == loc[p]
           plan == fetch_plan_by_product_id(l.sub_product)
           new_lots == upsert_credit_lot(l.sub_user, "subscription_cycle", l.sub_cycle,
                                         plan.quota_seconds + l.sub_rollover, l.sub_end)
           lot_id == IF Len(new_lots) > Len(lots) THEN Len(new_lots)
                     ELSE lot_id_by_source("subscription_cycle", l.sub_cycle)
       IN /\ lots' = new_lots
          /\ returned' = returned_after(new_lots)
          /\ Call(p, "pdn_fetch", "sub_state", [l EXCEPT !.pdn_user = l.sub_user, !.pdn_lot = lot_id])
    /\ UNCHANGED keep_but_lots

\* lines 691-716: the subscription columns of the entitlement, then the sync, with the debt
\* the paydown returned if there was one
handle_subscription_event_state(p) ==
    /\ pc[p] = "sub_state"
    /\ LET l == loc[p]
           plan == fetch_plan_by_product_id(l.sub_product)
           debt_after_paydown == l.ret
       IN /\ ent' = upsert_subscription_entitlement_state(l.sub_user,
                                                          Max2(plan.quota_seconds + l.sub_rollover, 0))
          /\ call_billing_sync(p, <<>>, sub_clear(l), l.sub_user, debt_after_paydown)
    /\ UNCHANGED debt_due
    /\ UNCHANGED keep_but_ent

SubscriptionEvent(p) ==
    \/ handle_subscription_event_lot(p)
    \/ handle_subscription_event_expire(p)
    \/ handle_subscription_event_upsert(p)
    \/ handle_subscription_event_state(p)

\* ---------------------------------------------- billing_webhook_events writes
WEBHOOK_PROCESSING_STALE_SECONDS == 300
ErrorLimit == 1000                       \* error[:1000]

\* A plausible slip: the event row is upserted, so a redelivery starts it over as received.
record_by_upsert(event_id) == TRUE

\* A plausible slip: the insert replaces the row of a delivery that failed.
record_over_failed(event_id) == events[event_id].status \in {"missing", "failed"}

\* record_webhook_event_received: insert; a unique violation (23505) returns False
record_webhook_event_received(event_id) == events[event_id].status = "missing"

\* A plausible slip: the claim takes rows that were never claimed, not those of a failed run.
claim_received_only(event_id) == events[event_id].status = "received"

\* A plausible slip: the claim forgets its status filter and updates the row whatever its status.
claim_any_status(event_id) == events[event_id].status # "missing"

\* claim_webhook_event_for_processing: the WHERE clause of the conditional update
claim_webhook_event_for_processing(event_id) == events[event_id].status \in {"received", "failed"}

\* the row after a successful claim: processed_at and error are cleared
claimed_row(event_id) ==
    [events[event_id] EXCEPT !.status = "processing", !.processed_at = -1, !.error = 0,
                             !.updated_at = now, !.won = @ + 1]

\* reclaim_stale_processing_webhook_event: a processing row whose claim is older than the
\* cutoff is handed back so that the claim that follows can take it
reclaim_stale_processing_webhook_event(event_id, stale_before) ==
    /\ events[event_id].status = "processing"
    /\ events[event_id].updated_at < stale_before

\* ------------------------- application/billing.py: handle_polar_webhook
\* line 392-394: the dispatch on the event type; order.paid goes to _handle_order_paid
wh_dispatch(p, l) ==
    IF l.wh_type = "order.paid"
    THEN Call(p, "op_order", "wh_mark",
              [l EXCEPT !.op_user = l.wh_user, !.op_order = l.wh_order, !.op_product = l.wh_product])
    ELSE IF l.wh_type = "order.refunded"
    THEN Call(p, "orf_fetch", "wh_mark", [l EXCEPT !.orf_order = l.wh_order, !.orf_total = l.wh_total,
                                                   !.orf_delta = l.wh_delta])
    ELSE IF l.wh_type \in SubscriptionTypes
    THEN Call(p, "sub_lot", "wh_mark",
              [l EXCEPT !.sub_type = l.wh_type, !.sub_user = l.wh_user, !.sub_product = l.wh_product,
                        !.sub_cycle = l.wh_cycle, !.sub_end = l.wh_end])
    ELSE Goto(p, "wh_mark", l)

\* lines 369-375
handle_polar_webhook_record(p) ==
    /\ pc[p] = "wh_record"
    /\ LET l == loc[p]
           inserted == record_webhook_event_received(l.wh_event)
       IN /\ events' = IF inserted
                       THEN [events EXCEPT ![l.wh_event] = [NoEvent EXCEPT !.status = "received",
                                                                            !.updated_at = now]]
                       ELSE events
          /\ Goto(p, "wh_claim", [l EXCEPT !.wh_inserted = inserted])
    /\ UNCHANGED keep_but_events

\* lines 376-377 and 385-388: the claim, and the claim that follows a reclaim
handle_polar_webhook_claim(p) ==
    /\ pc[p] \in {"wh_claim", "wh_claim2"}
    /\ LET l == loc[p] IN
       IF claim_webhook_event_for_processing(l.wh_event)
       THEN /\ events' = [events EXCEPT ![l.wh_event] = claimed_row(l.wh_event)]
            /\ wh_dispatch(p, [l EXCEPT !.wh_at = now])
       ELSE /\ events' = events
            /\ IF pc[p] = "wh_claim"
               THEN Goto(p, "wh_reclaim", l)
               ELSE Finish(p)
    /\ UNCHANGED keep_but_events

\* lines 378-384
handle_polar_webhook_reclaim(p) ==
    /\ pc[p] = "wh_reclaim"
    /\ LET l == loc[p]
           cutoff == now - WEBHOOK_PROCESSING_STALE_SECONDS
       IN IF reclaim_stale_processing_webhook_event(l.wh_event, cutoff)
          THEN /\ events' = [events EXCEPT ![l.wh_event].status = "failed",
                                           ![l.wh_event].updated_at = now,
                                           ![l.wh_event].won = 0]
               /\ Goto(p, "wh_claim2", l)
          ELSE /\ events' = events
               /\ Finish(p)
    /\ UNCHANGED keep_but_events

\* line 412: mark_webhook_event_processed, an update by event id
handle_polar_webhook_mark(p) ==
    /\ pc[p] = "wh_mark"
    /\ events' = [events EXCEPT ![loc[p].wh_event].status = "processed",
                                ![loc[p].wh_event].processed_at = now,
                                ![loc[p].wh_event].error = 0,
                                ![loc[p].wh_event].updated_at = now]
    /\ Finish(p)
    /\ UNCHANGED keep_but_events

\* A plausible slip: the message is stored whole.
error_text_whole(message_len) == message_len

\* mark_webhook_event_failed: error[:1000], as the length of what is stored
error_text(message_len) == Min2(message_len, ErrorLimit)

\* lines 413-415: mark_webhook_event_failed with str(exc), then the exception goes on
handle_polar_webhook_failed(p) ==
    /\ pc[p] = "wh_failed"
    /\ events' = [events EXCEPT ![loc[p].wh_event].status = "failed",
                                ![loc[p].wh_event].processed_at = now,
                                ![loc[p].wh_event].error = error_text(loc[p].exc),
                                ![loc[p].wh_event].updated_at = now,
                                ![loc[p].wh_event].won = 0]
    /\ Raise(p, loc[p].exc)
    /\ UNCHANGED keep_but_events

Webhook(p) ==
    \/ handle_polar_webhook_record(p)
    \/ handle_polar_webhook_claim(p)
    \/ handle_polar_webhook_reclaim(p)
    \/ handle_polar_webhook_mark(p)
    \/ handle_polar_webhook_failed(p)

\* the provider delivers an order.paid event
CallWebhook(p, event_id, user_id, polar_order_id, product_id) ==
    /\ pc[p] = "idle"
    /\ Call(p, "wh_record", "idle",
            [NoLocals EXCEPT !.wh_event = event_id, !.wh_type = "order.paid", !.wh_user = user_id,
                             !.wh_order = polar_order_id, !.wh_product = product_id])
    /\ UNCHANGED keep_all

\* the provider delivers a subscription event: the cycle is subscription id : current_period_start
CallWebhookSubscription(p, event_id, event_type, user_id, product_id, cycle, period_end) ==
    /\ pc[p] = "idle"
    /\ Call(p, "wh_record", "idle",
            [NoLocals EXCEPT !.wh_event = event_id, !.wh_type = event_type, !.wh_user = user_id,
                             !.wh_product = product_id, !.wh_cycle = cycle, !.wh_end = period_end])
    /\ UNCHANGED keep_all

\* the provider delivers an event of a type the dispatch does not know
CallWebhookOther(p, event_id) ==
    /\ pc[p] = "idle"
    /\ Call(p, "wh_record", "idle", [NoLocals EXCEPT !.wh_event = event_id, !.wh_type = "checkout.updated"])
    /\ UNCHANGED keep_all

\* a store request of the handler fails: PostgREST error, raised as ExternalServiceError
StoreErrorLens == {1200}
HandlerRequests == {"op_order", "op_lot", "pdn_fetch", "bsy_fetch"}
store_request_fails(p) ==
    /\ pc[p] \in HandlerRequests
    /\ in_stack(stack[p], "wh_mark")
    /\ \E n \in StoreErrorLens : Raise(p, n)
    /\ UNCHANGED keep_all

\* --------------------------- application/billing.py: request_pack_refund
RefundErrorLen == 40                     \* len of the InvalidRequestError messages, about
DuplicateErrorLen == 103                 \* len("Refund request already exists or may ... confirmation.")
ProviderErrorLen == 72                   \* len of a PolarInvalidRequestError message, about
UnreachableErrorLen == 25                \* len("Polar API is unreachable.")

\* fetch_billing_order_for_user: the row of this user with this provider order id, or None
fetch_billing_order_for_user(user_id, polar_order_id) ==
    IF orders[polar_order_id].status # "missing" /\ orders[polar_order_id].user = user_id
    THEN orders[polar_order_id] ELSE NoOrder

\* A plausible slip: the amount is rounded up to the next cent.
refundable_amount_rounded_up(paid_amount_cents, remaining_seconds, granted_seconds) ==
    (paid_amount_cents * remaining_seconds + granted_seconds - 1) \div granted_seconds

\* line 286: (paid_amount_cents * remaining_seconds) // granted_seconds
refundable_amount_cents(paid_amount_cents, remaining_seconds, granted_seconds) ==
    (paid_amount_cents * remaining_seconds) \div granted_seconds

\* -------------------------- application/billing.py: _handle_order_refunded
UnknownOrderErrorLen == 58               \* len of "Polar refund payload references unknown order ids: [...]"

\* fetch_billing_order_by_polar_id: the row with this provider order id, or None
fetch_billing_order_by_polar_id(polar_order_id) == orders[polar_order_id]

\* update_billing_order(order_id, {status, refunded_amount_cents}): an unconditional update by id
update_billing_order(order_id, status, refunded_amount_cents) ==
    [orders EXCEPT ![order_id].status = status, ![order_id].refunded = refunded_amount_cents]

NoTotal == -1                            \* provider_total_refunded = None: the payload has no order-level total

\* A plausible slip: the delta is added whatever the payload carries.
new_refunded_by_delta(existing_refunded, total, refund_delta_cents, paid_amount_cents) ==
    Min2(existing_refunded + (IF total = NoTotal THEN refund_delta_cents ELSE Max2(total, 0)), paid_amount_cents)

\* lines 567-577: the order-level total if the payload has one, else the delta on top
new_refunded(existing_refunded, total, refund_delta_cents, paid_amount_cents) ==
    IF total # NoTotal
    THEN Min2(Max2(existing_refunded, Max2(total, 0)), paid_amount_cents)
    ELSE Min2(existing_refunded + refund_delta_cents, paid_amount_cents)

\* lines 551-582: the order of the refund is read; what follows works on that copy.  The
\* payload carries the total refunded so far on the order (refunded_amount) or a delta.
handle_order_refunded_fetch(p) ==
    /\ pc[p] = "orf_fetch"
    /\ LET l == loc[p]
           order == fetch_billing_order_by_polar_id(l.orf_order)
           new_refunded_cents == new_refunded(order.refunded, l.orf_total, l.orf_delta, order.paid)
           is_pack == order.plan_type = "pack"
           set_refunded == \/ is_pack /\ new_refunded_cents > 0
                           \/ ~is_pack /\ order.paid > 0 /\ new_refunded_cents >= order.paid
       IN IF order.status = "missing"
          THEN Raise(p, UnknownOrderErrorLen)
          ELSE Goto(p, "orf_update",
                    [l EXCEPT !.orf_user = order.user, !.orf_refunded = new_refunded_cents,
                              !.orf_status = IF set_refunded THEN "refunded" ELSE order.status,
                              !.orf_revoke = is_pack /\ set_refunded])
    /\ UNCHANGED keep_all

\* lines 583-590: status and refunded amount are written by order id, whatever the row holds now
handle_order_refunded_update(p) ==
    /\ pc[p] = "orf_update"
    /\ LET l == loc[p] IN
       /\ orders' = update_billing_order(l.orf_order, l.orf_status, l.orf_refunded)
       /\ IF l.orf_revoke
          THEN Goto(p, "orf_lot", l)
          ELSE call_billing_sync(p, <<>>, orf_clear(l), l.orf_user, NoDebt)
    /\ UNCHANGED keep_but_orders

\* lines 592-599: the rest of the pack's lot is revoked
handle_order_refunded_lot(p) ==
    /\ pc[p] = "orf_lot"
    /\ LET l == loc[p]
           lot == fetch_credit_lot_by_source("pack_order", l.orf_order)
       IN IF lot.status = "missing"
          THEN call_billing_sync(p, <<>>, orf_clear(l), l.orf_user, NoDebt)
          ELSE Call(p, "rev_fetch", "orf_sync", [l EXCEPT !.rev_lot_id = lot.id])
    /\ UNCHANGED keep_all

\* lines 601-607
handle_order_refunded_sync(p) ==
    /\ pc[p] = "orf_sync"
    /\ call_billing_sync(p, <<>>, orf_clear(loc[p]), loc[p].orf_user, NoDebt)
    /\ UNCHANGED keep_all

OrderRefunded(p) ==
    \/ handle_order_refunded_fetch(p)
    \/ handle_order_refunded_update(p)
    \/ handle_order_refunded_lot(p)
    \/ handle_order_refunded_sync(p)

\* the provider delivers an order.refunded event: the order and the total refunded on it
CallWebhookRefunded(p, event_id, polar_order_id, refunded_amount) ==
    /\ pc[p] = "idle"
    /\ Call(p, "wh_record", "idle",
            [NoLocals EXCEPT !.wh_event = event_id, !.wh_type = "order.refunded",
                             !.wh_order = polar_order_id, !.wh_total = refunded_amount])
    /\ UNCHANGED keep_all

\* the provider delivers an order.refunded event that carries the amount of one refund only
CallWebhookRefundDelta(p, event_id, polar_order_id, refund_amount) ==
    /\ pc[p] = "idle"
    /\ Call(p, "wh_record", "idle",
            [NoLocals EXCEPT !.wh_event = event_id, !.wh_type = "order.refunded",
                             !.wh_order = polar_order_id, !.wh_total = NoTotal, !.wh_delta = refund_amount])
    /\ UNCHANGED keep_all

\* lines 252-267: the order must be the user's, a pack, and neither refund_pending nor refunded
request_pack_refund_fetch(p) ==
    /\ pc[p] = "rpr_fetch"
    /\ LET l == loc[p]
           order == fetch_billing_order_for_user(l.rpr_user, l.rpr_order)
       IN IF \/ order.status = "missing"
             \/ order.plan_type # "pack"
             \/ order.status \in {"refund_pending", "refunded"}
          THEN Raise(p, RefundErrorLen)
          ELSE Goto(p, "rpr_lot", [l EXCEPT !.rpr_paid = order.paid])
    /\ UNCHANGED keep_all

\* lines 269-288: the lot of the order and the amount its unused seconds are worth
request_pack_refund_lot(p) ==
    /\ pc[p] = "rpr_lot"
    /\ LET l == loc[p]
           lot == fetch_credit_lot_by_source("pack_order", l.rpr_order)
           remaining_seconds == remaining_seconds_from_lot(lot)
       IN IF \/ lot.status = "missing"
             \/ lot.granted <= 0 \/ l.rpr_paid <= 0
             \/ remaining_seconds <= 0
             \/ refundable_amount_cents(l.rpr_paid, remaining_seconds, lot.granted) <= 0
          THEN Raise(p, RefundErrorLen)
          ELSE Goto(p, "rpr_transition",
                    [l EXCEPT !.rpr_remaining = remaining_seconds,
                              !.rpr_amount = refundable_amount_cents(l.rpr_paid, remaining_seconds,
                                                                     lot.granted)])
    /\ UNCHANGED keep_all

\* lines 290-314: the conditional move paid -> refund_pending; the winner re-syncs the snapshot
request_pack_refund_transition(p) ==
    /\ pc[p] = "rpr_transition"
    /\ LET l == loc[p] IN
       IF transition_billing_order_status(l.rpr_order, "paid")
       THEN /\ orders' = [orders EXCEPT ![l.rpr_order].status = "refund_pending",
                                        ![l.rpr_order].wins = @ + 1,
                                        ![l.rpr_order].holder = p]
            /\ call_billing_sync(p, <<"rpr_provider">>, l, l.rpr_user, NoDebt)
       ELSE /\ orders' = orders
            /\ Goto(p, "rpr_refresh", l)
    /\ UNCHANGED keep_but_orders

\* lines 297-307: the loser reads the order again and raises, whatever it finds
request_pack_refund_refresh(p) ==
    /\ pc[p] = "rpr_refresh"
    /\ Raise(p, RefundErrorLen)
    /\ UNCHANGED keep_all

\* lines 316-361: polar.create_order_refund.  The provider answers with the refund, with a
\* 409 or duplicate message, with another client error, or not at all.
ProviderOutcomes == {"ok", "conflict", "rejected", "unknown"}

\* A plausible slip: every client error reopens the order, a 409 or duplicate message too.
is_client_error(outcome) == outcome \in {"rejected", "conflict"}

\* lines 322-335: a PolarInvalidRequestError that is neither a 409 nor a duplicate message
is_clear_rejection(outcome) == outcome = "rejected"

request_pack_refund_provider(p) ==
    /\ pc[p] = "rpr_provider"
    /\ LET l == loc[p] IN
       \E outcome \in ProviderOutcomes :
          /\ refunds' = Append(refunds, [order |-> l.rpr_order, amount |-> l.rpr_amount, by |-> p,
                                         outcome |-> outcome])
          /\ IF outcome = "ok" THEN Finish(p)
             ELSE IF is_clear_rejection(outcome) THEN Goto(p, "rpr_reopen", [l EXCEPT !.exc = ProviderErrorLen])
             ELSE IF outcome = "conflict" THEN Raise(p, DuplicateErrorLen)
             ELSE Raise(p, UnreachableErrorLen)
    /\ UNCHANGED keep_but_refunds

\* lines 335-346: a clearly rejected request reopens the order, and the snapshot is re-synced
request_pack_refund_reopen(p) ==
    /\ pc[p] = "rpr_reopen"
    /\ LET l == loc[p] IN
       /\ orders' = IF transition_billing_order_status(l.rpr_order, "refund_pending")
                    THEN [orders EXCEPT ![l.rpr_order].status = "paid", ![l.rpr_order].holder = ""]
                    ELSE orders
       /\ call_billing_sync(p, <<"rpr_reraise">>, l, l.rpr_user, NoDebt)
    /\ UNCHANGED keep_but_orders

\* line 347
request_pack_refund_reraise(p) ==
    /\ pc[p] = "rpr_reraise"
    /\ Raise(p, loc[p].exc)
    /\ UNCHANGED keep_all

RequestPackRefund(p) ==
    \/ request_pack_refund_fetch(p)
    \/ request_pack_refund_lot(p)
    \/ request_pack_refund_transition(p)
    \/ request_pack_refund_refresh(p)
    \/ request_pack_refund_provider(p)
    \/ request_pack_refund_reopen(p)
    \/ request_pack_refund_reraise(p)

\* the user asks for the refund of a pack order
CallRequestPackRefund(p, user_id, polar_order_id) ==
    /\ pc[p] = "idle"
    /\ Call(p, "rpr_fetch", "idle", [NoLocals EXCEPT !.rpr_user = user_id, !.rpr_order = polar_order_id])
    /\ UNCHANGED keep_all


\* ------------------------------------------------------------------------
\* SpecLot: concurrent callers of the lot engine on one lot.
\* ------------------------------------------------------------------------
InitLot ==
    /\ \E g \in 1..MaxGranted, e \in {NoExpiry, 0, FarExpiry} :
         lots = << [id |-> 1, user |-> "u1", lot_type |-> "pack_order", source_key |-> "o1", granted |-> g,
                    consumed |-> 0, revoked |-> 0, expires |-> e, status |-> "active"] >>
    /\ returned = <<0>>
    /\ ent = [u \in Users |-> NoEnt]
    /\ orders = [o \in OrderIds |-> NoOrder]
    /\ events = [e \in EventIds |-> NoEvent]
    /\ usage_ledger = <<>>
    /\ refunds = <<>>
    /\ cap = 1
    /\ debt_due = [u \in Users |-> 0]
    /\ trace = <<>>
    /\ now = 0
    /\ pc = [p \in Procs |-> "idle"]
    /\ stack = [p \in Procs |-> <<>>]
    /\ loc = [p \in Procs |-> NoLocals]

\* a caller invokes consume_credit_lot_by_id(lot 1, s, now)
CallConsume(p) ==
    /\ pc[p] = "idle"
    /\ \E s \in 1..MaxSeconds :
         Call(p, "cbi_fetch", "idle",
              [NoLocals EXCEPT !.cbi_lot_id = 1, !.cbi_seconds = s, !.cbi_now = now])
    /\ UNCHANGED keep_all

\* a caller invokes revoke_remaining_credit_lot(lot 1)
CallRevoke(p) ==
    /\ pc[p] = "idle"
    /\ Call(p, "rev_fetch", "idle", [NoLocals EXCEPT !.rev_lot_id = 1])
    /\ UNCHANGED keep_all

LotEngine(p) ==
    \/ consume_credit_lot_by_id_fetch(p)
    \/ consume_credit_lot_by_id_try(p)
    \/ consume_credit_lot_by_id_refetch(p)
    \/ revoke_remaining_credit_lot_fetch(p)
    \/ revoke_remaining_credit_lot_try(p)
    \/ revoke_remaining_credit_lot_refetch(p)

NextLot == \E p \in Procs : CallConsume(p) \/ CallRevoke(p) \/ LotEngine(p)

SpecLot == InitLot /\ [][NextLot]_vars

\* C1: under any interleaving of consume_credit_lot_by_id (and revoke) calls on a lot,
\* consumed_seconds + revoked_seconds never exceeds granted_seconds, and the values the
\* consume calls returned add up to the increase of consumed_seconds.
C1_ConsumeNeverOverdraws ==
    \A i \in DOMAIN lots :
        /\ lots[i].consumed + lots[i].revoked <= lots[i].granted
        /\ returned[i] = lots[i].consumed

\* two consume calls on the lot overlapped: one lost its conditional update, re-read, and took seconds
C1_Witness ==
    \E p \in Procs :
        /\ pc[p] = "idle" /\ loc[p].ret > 0
        /\ lots[1].consumed >= 2
        /\ \E q \in Procs \ {p} : pc[q] = "cbi_try" /\ loc[q].cbi_i > 0

\* ------------------------------------------------------------------------
\* SpecSeq: one caller of consume_credit_lots on a ledger drawn from the states
\* grants, consumption and expiry lead to; nobody else touches the store.
\* ------------------------------------------------------------------------
LotTypes == {"subscription_cycle", "pack_order"}
SeqExpiries == {NoExpiry, 0, 1, 2}      \* the call is made at now = 0: expiry 0 has passed
SeqGrants == {1, 2}                     \* granted_seconds of the starting lots
SeqShapes == {sh \in [lot_type : LotTypes, granted : SeqGrants, consumed : 0..2,
                      expires : SeqExpiries] : sh.consumed <= sh.granted}

EmptyStore ==
    /\ ent = [u \in Users |-> NoEnt]
    /\ orders = [o \in OrderIds |-> NoOrder]
    /\ events = [e \in EventIds |-> NoEvent]
    /\ usage_ledger = <<>>
    /\ refunds = <<>>

InitSeq ==
    /\ \E n \in 1..MaxLots : \E f \in [1..n -> SeqShapes] :
         lots = [i \in 1..n |->
                    [id |-> i, user |-> "u1", lot_type |-> f[i].lot_type, source_key |-> "o1",
                     granted |-> f[i].granted, consumed |-> f[i].consumed, revoked |-> 0,
                     expires |-> f[i].expires, status |-> "active"]]
    /\ returned = [i \in DOMAIN lots |-> lots[i].consumed]
    /\ EmptyStore
    /\ cap = 1
    /\ debt_due = [u \in Users |-> 0]
    /\ trace = <<>>
    /\ now = 0
    /\ pc = [p \in Procs |-> "idle"]
    /\ stack = [p \in Procs |-> <<>>]
    /\ loc = [p \in Procs |-> NoLocals]

\* the one call under observation: what it was asked and the ledger it started from
CallConsumeLots(p) ==
    /\ p = "p1" /\ pc[p] = "idle" /\ trace = <<>>
    /\ \E t \in LotTypes, s \in 1..SeqSeconds :
         /\ Call(p, "ccl_start", "idle",
                 [NoLocals EXCEPT !.ccl_user = "u1", !.ccl_type = t, !.ccl_now = now, !.ccl_remaining = s])
         /\ trace' = <<[op |-> "consume_credit_lots", user |-> "u1", lot_type |-> t, seconds |-> s,
                        at |-> now, lots0 |-> lots]>>
    /\ UNCHANGED <<tables, cap, now, returned, debt_due>>

NextSeq ==
    \E p \in Procs :
        \/ CallConsumeLots(p)
        \/ consume_credit_lots_start(p)
        \/ list_credit_lots_for_consumption_expire(p)
        \/ consume_credit_lots_loop(p)
        \/ consume_credit_lot_by_id_fetch(p)
        \/ consume_credit_lot_by_id_try(p)

SpecSeq == InitSeq /\ [][NextSeq]_vars

\* the lots a call could draw from: the user's active lots of the type, not expired at the call
Consumable(o) ==
    {o.lots0[i] : i \in {j \in DOMAIN o.lots0 :
        /\ o.lots0[j].user = o.user /\ o.lots0[j].lot_type = o.lot_type
        /\ o.lots0[j].status = "active" /\ ~is_expired(o.lots0[j], o.at)}}

\* the order the claim names: expiry ascending with no-expiry last, then creation time
ExpiryThenCreation(a, b) ==
    \/ a.expires # NoExpiry /\ (b.expires = NoExpiry \/ a.expires < b.expires)
    \/ a.expires = b.expires /\ a.id < b.id

\* C8: consume_credit_lots asked for no more than the consumable lots hold returns exactly
\* what it was asked, and draws it in (expiry, nulls last; creation) order: a later lot is
\* touched only when every earlier one has nothing left; lots outside the order keep their count.
C8_SufficientBalanceInOrder ==
    (pc["p1"] = "idle" /\ trace # <<>>) =>
        LET o == trace[1]
            elig == Consumable(o)
        IN SumRemaining(elig) >= o.seconds =>
             /\ loc["p1"].ret = o.seconds
             /\ \A a \in elig, b \in elig :
                    (ExpiryThenCreation(a, b) /\ lots[b.id].consumed # b.consumed)
                        => remaining_seconds_from_lot(lots[a.id]) = 0
             /\ \A i \in DOMAIN lots :
                    o.lots0[i] \notin elig => lots[i].consumed = o.lots0[i].consumed

\* a call that drained the lot that is first in order, though created later, and went on into the next
C8_Witness ==
    /\ pc["p1"] = "idle" /\ trace # <<>>
    /\ LET o == trace[1]
           elig == Consumable(o)
       IN /\ SumRemaining(elig) >= o.seconds
          /\ loc["p1"].ret = o.seconds
          /\ \E a \in elig, b \in elig :
                /\ a.id > b.id /\ ExpiryThenCreation(a, b)
                /\ lots[a.id].consumed > a.consumed /\ lots[b.id].consumed > b.consumed

\* ------------------------------------------------------------------------
\* SpecUsage: two workers record the usage of finished jobs of one user.
\* ------------------------------------------------------------------------
UsageLedgers ==
    {<<>>,
     << [id |-> 1, user |-> "u1", lot_type |-> "subscription_cycle", source_key |-> "s1", granted |-> 1,
         consumed |-> 0, revoked |-> 0, expires |-> FarExpiry, status |-> "active"] >>,
     << [id |-> 1, user |-> "u1", lot_type |-> "pack_order", source_key |-> "o1", granted |-> 2,
         consumed |-> 0, revoked |-> 0, expires |-> FarExpiry, status |-> "active"] >>,
     << [id |-> 1, user |-> "u1", lot_type |-> "subscription_cycle", source_key |-> "s1", granted |-> 1,
         consumed |-> 0, revoked |-> 0, expires |-> FarExpiry, status |-> "active"],
        [id |-> 2, user |-> "u1", lot_type |-> "pack_order", source_key |-> "o1", granted |-> 1,
         consumed |-> 0, revoked |-> 0, expires |-> 0, status |-> "active"] >>}

\* the snapshot a sync at time `at` writes for these lots
snapshot_of(L, user_id, debt_seconds, debt_cap_seconds, at) ==
    LET live(t) == {L[i] : i \in {j \in DOMAIN L : /\ L[j].user = user_id /\ L[j].lot_type = t
                                                   /\ L[j].status = "active" /\ ~is_expired(L[j], at)}}
    IN [exists |-> TRUE, sub_avail |-> SumRemaining(live("subscription_cycle")),
        pack_avail |-> SumRemaining(live("pack_order")),
        pack_expires |-> IF \E r \in live("pack_order") : remaining_seconds_from_lot(r) > 0
                         THEN (CHOOSE r \in live("pack_order") : remaining_seconds_from_lot(r) > 0).expires
                         ELSE NoExpiry,
        debt |-> debt_seconds, blocked |-> (debt_seconds >= debt_cap_seconds)]

InitUsage ==
    /\ lots \in UsageLedgers
    /\ returned = [i \in DOMAIN lots |-> lots[i].consumed]
    /\ cap \in {2, 3}
    /\ now = 1
    /\ \E d \in 0..1 :
         /\ ent \in {[u \in Users |-> snapshot_of(lots, u, d, cap, 0)]}
                    \cup (IF lots = <<>> /\ d = 0 THEN {[u \in Users |-> NoEnt]} ELSE {})
         /\ debt_due = [u \in Users |-> d]
    /\ orders = [o \in OrderIds |-> NoOrder]
    /\ events = [e \in EventIds |-> NoEvent]
    /\ usage_ledger = <<>>
    /\ refunds = <<>>
    /\ trace = <<>>
    /\ pc = [p \in Procs |-> "idle"]
    /\ stack = [p \in Procs |-> <<>>]
    /\ loc = [p \in Procs |-> NoLocals]

\* a job of 1..MaxDuration seconds finished; the workers stop once MaxDebt seconds are owed
JobFinished(p) ==
    \E d \in 1..MaxDuration :
        /\ debt_due["u1"] + d <= MaxDebt
        /\ CallRecordUsage(p, "u1", d)

NextUsage ==
    \E p \in Procs :
        \/ JobFinished(p)
        \/ RecordUsage(p)
        \/ EnsureFree(p)
        \/ ConsumeLots(p)
        \/ consume_credit_lot_by_id_fetch(p)
        \/ consume_credit_lot_by_id_try(p)
        \/ consume_credit_lot_by_id_refetch(p)
        \/ Summarize(p)
        \/ usage_sync_entitlement_snapshot_write(p)

SpecUsage == InitUsage /\ [][NextUsage]_vars

AllIdle == \A p \in Procs : pc[p] = "idle"

\* C6: debt changes of concurrent operations on one user add up: once every operation has
\* returned, the stored debt_seconds is the debt at the start plus every shortfall recorded
\* minus every paydown applied, as if the operations had run one after another.
C6_NoLostDebtUpdate ==
    AllIdle => \A u \in Users : ent[u].exists => ent[u].debt = debt_due[u]

\* C7: the debt write of record_usage_for_job stores max(debt_before + shortfall, 0), where
\* debt_before is the debt stored immediately before the write, and a shortfall is recorded
\* only when the user's consumable lots have been drained.
C7_ShortfallBecomesDebt ==
    [][\A p \in Procs :
          (pc[p] = "usy_write" /\ pc'[p] = "ruj_end") =>
              LET l == loc[p]
                  shortfall == Max2(l.ruj_remaining, 0)
                  debt_before == IF ent[l.ruj_user].exists THEN ent[l.ruj_user].debt ELSE 0
              IN /\ ent'[l.ruj_user].debt = Max2(debt_before + shortfall, 0)
                 /\ shortfall > 0 =>
                        \A i \in DOMAIN lots :
                            (lots[i].user = l.ruj_user /\ lots[i].status = "active"
                             /\ ~is_expired(lots[i], now))
                                => remaining_seconds_from_lot(lots[i]) = 0]_vars

\* ------------------------------------------------------------------------
\* SpecPaid: the provider delivers order.paid events for one pack order, under
\* two event ids, to two workers; store requests of the handler may fail, and
\* the provider delivers again.
\* ------------------------------------------------------------------------
InitPaid ==
    /\ lots = <<>>
    /\ returned = <<>>
    /\ cap \in {1, 2}
    /\ now = 0
    /\ \E d \in 0..InitDebt :
         /\ ent = [u \in Users |-> snapshot_of(lots, u, d, cap, 0)]
         /\ debt_due = [u \in Users |-> d]
    /\ orders = [o \in OrderIds |-> NoOrder]
    /\ events = [e \in EventIds |-> NoEvent]
    /\ usage_ledger = <<>>
    /\ refunds = <<>>
    /\ trace = <<>>
    /\ pc = [p \in Procs |-> "idle"]
    /\ stack = [p \in Procs |-> <<>>]
    /\ loc = [p \in Procs |-> NoLocals]

DeliverOrderPaid(p) ==
    \E e \in EventIds : CallWebhook(p, e, "u1", "o1", "pack_small")

\* everything a delivery of order.paid runs
PaidHandler(p) ==
    \/ Webhook(p)
    \/ OrderPaid(p)
    \/ Paydown(p)
    \/ BillingSync(p)
    \/ store_request_fails(p)
    \/ summarize_credit_lots_select(p)
    \/ consume_credit_lot_by_id_fetch(p)
    \/ consume_credit_lot_by_id_try(p)
    \/ consume_credit_lot_by_id_refetch(p)

NextPaid == \E p \in Procs : DeliverOrderPaid(p) \/ PaidHandler(p)

SpecPaid == InitPaid /\ [][NextPaid]_vars

pack_lots_of(o) == {i \in DOMAIN lots : lots[i].lot_type = "pack_order" /\ lots[i].source_key = o}

\* C3: however often and however concurrently the order.paid handler runs for one order, there
\* is one pack lot for it once a run has got that far, its grant is the plan quota, a later run
\* leaves consumed_seconds and revoked_seconds as they are, and what was ever consumed from the
\* lot stays within the one quota.
C3_PackGrantedOnce ==
    /\ [](\A o \in OrderIds :
            /\ Cardinality(pack_lots_of(o)) <= 1
            /\ (\E e \in EventIds : events[e].status = "processed") => Cardinality(pack_lots_of("o1")) = 1
            /\ \A i \in pack_lots_of(o) :
                  /\ lots[i].granted = fetch_plan_by_product_id("pack_small").quota_seconds
                  /\ returned[i] = lots[i].consumed
                  /\ lots[i].consumed + lots[i].revoked <= lots[i].granted)
    /\ [][(\E p \in Procs : pc[p] = "op_lot" /\ pc'[p] = "pdn_fetch") =>
             /\ Len(lots') <= Len(lots) + 1
             /\ \A i \in DOMAIN lots : /\ lots'[i].consumed = lots[i].consumed
                                       /\ lots'[i].revoked = lots[i].revoked]_vars

\* both deliveries were processed, the second one on a lot the first one's paydown had drawn from
C3_Witness ==
    /\ \A e \in EventIds : events[e].status = "processed"
    /\ AllIdle
    /\ Cardinality(pack_lots_of("o1")) = 1
    /\ \E i \in pack_lots_of("o1") : lots[i].consumed > 0

\* C4: of the claims made on an event row while it is received or failed, one succeeds: it
\* moves the row to processing; a claim that finds the row processing returns false and
\* leaves the row as it is.
C4_OneClaimWins ==
    /\ [](\A e \in EventIds : events[e].won <= 1)
    /\ [][\A p \in Procs :
            (pc[p] \in {"wh_claim", "wh_claim2"} /\ pc'[p] # pc[p]) =>
                LET e == loc[p].wh_event IN
                IF events[e].status \in {"received", "failed"}
                THEN events'[e].status = "processing" /\ pc'[p] = "op_order"
                ELSE events' = events /\ pc'[p] \in {"wh_reclaim", "idle"}]_vars

\* two deliveries of one event raced for the claim: one runs the handler, the other lost
C4_Witness ==
    \E p \in Procs, q \in Procs :
        /\ pc[p] = "op_order" /\ pc[q] = "wh_reclaim"
        /\ loc[p].wh_event = loc[q].wh_event
        /\ loc[q].wh_inserted
        /\ events[loc[p].wh_event].status = "processing"

\* ------------------------------------------------------------------------
\* SpecHook: deliveries of one order.paid event to two workers while time
\* passes, so that a claim can become stale under a handler that is still running.
\* ------------------------------------------------------------------------
Clock == {0, 200, 400}

Tick ==
    /\ \E t \in Clock : t > now /\ now' = t
    /\ UNCHANGED <<tables, cap, pc, stack, loc, returned, debt_due, trace>>

NextHook == Tick \/ \E p \in Procs : CallWebhook(p, "e1", "u1", "o1", "pack_small") \/ PaidHandler(p)

SpecHook == InitPaid /\ [][NextHook]_vars

\* the claim on the row is younger than the staleness threshold
fresh_claim(row) ==
    row.status = "processing" /\ ~(row.updated_at < now - WEBHOOK_PROCESSING_STALE_SECONDS)

\* C5: every step of a delivery that finds its event row processed, or processing under a
\* claim younger than 300 s, changes no row of any table and dispatches no handler, and the
\* delivery returns without raising.
C5_DuplicateDeliveryIsNoOp ==
    [][\A p \in Procs :
         (/\ pc[p] \in {"wh_record", "wh_claim", "wh_reclaim", "wh_claim2"}
          /\ pc'[p] # pc[p]
          /\ \/ events[loc[p].wh_event].status = "processed"
             \/ fresh_claim(events[loc[p].wh_event]))
         => /\ tables' = tables
            /\ pc'[p] \in {"wh_claim", "wh_reclaim", "idle"}
            /\ pc[p] \in {"wh_reclaim", "wh_claim2"} => pc'[p] = "idle"]_vars

\* a delivery has recorded and tried its claim, changing nothing, because the other worker
\* holds the event under a claim made 200 s ago and is still in the handler
C5_Witness ==
    \E p \in Procs, q \in Procs :
        /\ pc[p] = "wh_reclaim" /\ ~loc[p].wh_inserted
        /\ in_stack(stack[q], "wh_mark") /\ loc[q].wh_event = loc[p].wh_event
        /\ fresh_claim(events[loc[p].wh_event])
        /\ now - events[loc[p].wh_event].updated_at = 200

\* ------------------------------------------------------------------------
\* SpecLedger: worker p1 handles the deliveries of an order.paid event while
\* worker p2 records the usage of finished jobs of the same user.
\* ------------------------------------------------------------------------
NextLedger ==
    \/ CallWebhook("p1", "e1", "u1", "o1", "pack_small")
    \/ JobFinished("p2")
    \/ \E p \in Procs :
        \/ PaidHandler(p)
        \/ record_usage_for_job_fetch(p)
        \/ record_usage_for_job_sub_done(p)
        \/ record_usage_for_job_pack_done(p)
        \/ record_usage_for_job_end(p)
        \/ consume_credit_lots_start(p)
        \/ consume_credit_lots_loop(p)
        \/ usage_sync_entitlement_snapshot_write(p)

SpecLedger == InitPaid /\ [][NextLedger]_vars

\* C10: in every state every snapshot row has is_blocked = (debt_seconds >= cap).
C10_BlockedIffDebtAtCap ==
    \A u \in Users : ent[u].exists => (ent[u].blocked <=> ent[u].debt >= cap)

\* usage ran the debt up to the cap (or the user started there), and the paydown of a paid
\* pack has brought it below again: the snapshot is unblocked
C10_Witness ==
    /\ AllIdle
    /\ ent["u1"].exists /\ ~ent["u1"].blocked /\ ent["u1"].debt < cap
    /\ usage_ledger = <<>>
    /\ \E i \in DOMAIN lots : lots[i].consumed >= cap

\* ------------------------------------------------------------------------
\* SpecRefund: the user's refund requests for one paid pack order reach two
\* workers; the provider answers each create-refund request as it sees fit.
\* ------------------------------------------------------------------------
InitRefund ==
    /\ \E c \in 0..RefundGranted :
         lots = << [id |-> 1, user |-> "u1", lot_type |-> "pack_order", source_key |-> "o1",
                    granted |-> RefundGranted, consumed |-> c, revoked |-> 0, expires |-> FarExpiry,
                    status |-> "active"] >>
    /\ returned = [i \in DOMAIN lots |-> lots[i].consumed]
    /\ cap = 2
    /\ now = 0
    /\ ent = [u \in Users |-> snapshot_of(lots, u, 0, cap, 0)]
    /\ debt_due = [u \in Users |-> 0]
    /\ orders = [o \in OrderIds |-> [NoOrder EXCEPT !.user = "u1", !.plan_type = "pack",
                                                    !.paid = PaidCents, !.status = "paid"]]
    /\ events = [e \in EventIds |-> NoEvent]
    /\ usage_ledger = <<>>
    /\ refunds = <<>>
    /\ trace = <<>>
    /\ pc = [p \in Procs |-> "idle"]
    /\ stack = [p \in Procs |-> <<>>]
    /\ loc = [p \in Procs |-> NoLocals]

\* the user stops asking once MaxRefundCalls requests have gone out to the provider
RefundRequested(p) ==
    /\ Len(refunds) < MaxRefundCalls
    /\ CallRequestPackRefund(p, "u1", "o1")

NextRefund ==
    \E p \in Procs :
        \/ RefundRequested(p)
        \/ RequestPackRefund(p)
        \/ BillingSync(p)
        \/ summarize_credit_lots_select(p)

SpecRefund == InitRefund /\ [][NextRefund]_vars

\* the create-refund requests for an order the provider did not clearly reject
live_refunds(o) == {i \in DOMAIN refunds : refunds[i].order = o /\ refunds[i].outcome # "rejected"}

\* the calls that have won the move to refund_pending and not yet heard from the provider
refund_holders(o) ==
    {p \in Procs : /\ loc[p].rpr_order = o
                   /\ \/ pc[p] \in {"rpr_provider", "rpr_reopen"}
                      \/ in_stack(stack[p], "rpr_provider")}

\* C2, as stated: one call at most ever wins the move paid -> refund_pending of an order,
\* and the provider receives one create-refund request at most for it.
C2_AtMostOneWinner ==
    \A o \in OrderIds :
        /\ orders[o].wins <= 1
        /\ Cardinality({i \in DOMAIN refunds : refunds[i].order = o}) <= 1

\* C2, amended: at any time one call at most holds an order in refund_pending; the provider is
\* called by that call only, while the order is refund_pending under its own move; a further
\* call wins only after the provider clearly rejected the request before it and the order was
\* reopened, so one request at most goes out that the provider did not clearly reject.
C2_NoDoubleRefund ==
    /\ [](\A o \in OrderIds :
            /\ Cardinality(refund_holders(o)) <= 1
            /\ Cardinality(live_refunds(o)) <= 1
            /\ orders[o].wins <= 1 + Cardinality({i \in DOMAIN refunds : refunds[i].order = o
                                                                         /\ refunds[i].outcome = "rejected"})
            /\ \A p \in refund_holders(o) : orders[o].status = "refund_pending" /\ orders[o].holder = p)
    /\ [][\A p \in Procs :
            (pc[p] = "rpr_provider" /\ pc'[p] # pc[p]) =>
                LET o == loc[p].rpr_order IN
                /\ orders[o].status = "refund_pending" /\ orders[o].holder = p
                /\ live_refunds(o) = {}
                /\ Len(refunds') = Len(refunds) + 1]_vars

\* the provider clearly rejected the first call's request, the order was reopened, and the
\* other call, which had been running all along, then won the move and had its request accepted
C2_Witness ==
    /\ Len(refunds) = 2
    /\ refunds[1].outcome = "rejected" /\ refunds[2].outcome = "ok"
    /\ refunds[1].by # refunds[2].by
    /\ orders["o1"].wins = 2 /\ orders["o1"].status = "refund_pending"
    /\ pc[refunds[1].by] = "bsy_write"

\* ------------------------------------------------------------------------
\* SpecE2E: one worker, one operation after another, on a user who has an
\* entitlement row with no debt and no lot: jobs finish and are recorded, and
\* the order.paid event of a 600 s pack is delivered (and delivered again).
\* ------------------------------------------------------------------------
InitE2E ==
    /\ lots = <<>>
    /\ returned = <<>>
    /\ cap = E2ECap
    /\ now = 0
    /\ ent = [u \in Users |-> snapshot_of(lots, u, 0, cap, 0)]
    /\ debt_due = [u \in Users |-> 0]
    /\ orders = [o \in OrderIds |-> NoOrder]
    /\ events = [e \in EventIds |-> NoEvent]
    /\ usage_ledger = <<>>
    /\ refunds = <<>>
    /\ trace = <<>>
    /\ pc = [p \in Procs |-> "idle"]
    /\ stack = [p \in Procs |-> <<>>]
    /\ loc = [p \in Procs |-> NoLocals]

\* record_usage_for_job(user, duration) is called, and logged
E2ERecordUsage ==
    \E d \in {E2EUsage, E2ESmall} :
        /\ pc["p1"] = "idle" /\ Len(trace) < E2EOps
        /\ Call("p1", "ruj_fetch", "idle",
                [NoLocals EXCEPT !.ruj_user = "u1", !.ruj_duration = d, !.ruj_remaining = d])
        /\ trace' = Append(trace, [op |-> "usage", seconds |-> d])
        /\ UNCHANGED <<tables, cap, now, returned, debt_due>>

\* handle_polar_webhook(order.paid of the 600 s pack) is called, and logged
E2EOrderPaid ==
    /\ pc["p1"] = "idle" /\ Len(trace) < E2EOps
    /\ Call("p1", "wh_record", "idle",
            [NoLocals EXCEPT !.wh_event = "e1", !.wh_type = "order.paid", !.wh_user = "u1",
                             !.wh_order = "o1", !.wh_product = "pack_600"])
    /\ trace' = Append(trace, [op |-> "order.paid", seconds |-> Plans["pack_600"].quota_seconds])
    /\ UNCHANGED <<tables, cap, now, returned, debt_due>>

NextE2E ==
    \/ E2ERecordUsage
    \/ E2EOrderPaid
    \/ \E p \in Procs :
        \/ record_usage_for_job_fetch(p)
        \/ record_usage_for_job_sub_done(p)
        \/ record_usage_for_job_pack_done(p)
        \/ record_usage_for_job_end(p)
        \/ consume_credit_lots_start(p)
        \/ consume_credit_lots_loop(p)
        \/ summarize_credit_lots_select(p)
        \/ usage_sync_entitlement_snapshot_write(p)
        \/ handle_polar_webhook_record(p)
        \/ handle_polar_webhook_claim(p)
        \/ handle_polar_webhook_reclaim(p)
        \/ handle_polar_webhook_mark(p)
        \/ OrderPaid(p)
        \/ Paydown(p)
        \/ BillingSync(p)
        \/ consume_credit_lot_by_id_fetch(p)
        \/ consume_credit_lot_by_id_try(p)

SpecE2E == InitE2E /\ [][NextE2E]_vars

ExpireLot1(c) == [id |-> 1, user |-> "u1", lot_type |-> "pack_order", source_key |-> "o1",
                  granted |-> 2, consumed |-> c, revoked |-> 0, expires |-> 1, status |-> "active"]
ExpireLedgers ==
    {<<ExpireLot1(c)>> : c \in 0..1}
    \cup {<<ExpireLot1(0), [id |-> 2, user |-> "u1", lot_type |-> t, source_key |-> "s2",
                            granted |-> 1, consumed |-> 0, revoked |-> 0, expires |-> e,
                            status |-> "active"]>> : t \in {"subscription_cycle", "pack_order"},
                                                     e \in {ExpireClock, NoExpiry}}

InitExpire ==
    /\ lots \in ExpireLedgers
    /\ returned = [i \in DOMAIN lots |-> lots[i].consumed]
    /\ ent = [u \in Users |-> NoEnt]
    /\ orders = [o \in OrderIds |-> NoOrder]
    /\ events = [e \in EventIds |-> NoEvent]
    /\ usage_ledger = <<>>
    /\ refunds = <<>>
    /\ cap = 1
    /\ debt_due = [u \in Users |-> 0]
    /\ trace = <<>>
    /\ now = 0
    /\ pc = [p \in Procs |-> "idle"]
    /\ stack = [p \in Procs |-> <<>>]
    /\ loc = [p \in Procs |-> NoLocals]

\* datetime.now(UTC) moves on
ExpireTick ==
    /\ now < ExpireClock
    /\ now' = now + 1
    /\ UNCHANGED <<tables, cap, pc, stack, loc, returned, debt_due, trace>>

\* consume_credit_lot_by_id(lot, 1, now)
ExpireConsume(p) ==
    /\ pc[p] = "idle"
    /\ \E i \in DOMAIN lots :
         Call(p, "cbi_fetch", "idle",
              [NoLocals EXCEPT !.cbi_lot_id = i, !.cbi_seconds = 1, !.cbi_now = now])
    /\ UNCHANGED keep_all

\* revoke_remaining_credit_lot(the pack)
ExpireRevoke(p) ==
    /\ pc[p] = "idle"
    /\ Call(p, "rev_fetch", "idle", [NoLocals EXCEPT !.rev_lot_id = 1])
    /\ UNCHANGED keep_all

\* consume_credit_lots(user, lot_type, 1, now)
ExpireConsumeLots(p) ==
    /\ pc[p] = "idle"
    /\ \E t \in {"subscription_cycle", "pack_order"} :
         Call(p, "ccl_start", "idle",
              [NoLocals EXCEPT !.ccl_user = "u1", !.ccl_type = t, !.ccl_now = now,
                               !.ccl_remaining = 1])
    /\ UNCHANGED keep_all

\* summarize_credit_lots(user, now)
ExpireSummarize(p) ==
    /\ pc[p] = "idle"
    /\ Call(p, "sum_select", "idle", [NoLocals EXCEPT !.sum_user = "u1", !.sum_now = now])
    /\ UNCHANGED keep_all

NextExpire ==
    \/ ExpireTick
    \/ \E p \in Procs :
        \/ ExpireConsume(p)
        \/ ExpireRevoke(p)
        \/ ExpireConsumeLots(p)
        \/ ExpireSummarize(p)
        \/ LotEngine(p)
        \/ ConsumeLots(p)
        \/ Summarize(p)

SpecExpire == InitExpire /\ [][NextExpire]_vars

\* expires_at <= now, for a lot that has an expiry
past_expiry(lot, at) == lot.expires # NoExpiry /\ lot.expires <= at

\* what the rows of a scan add to the totals when the expired ones count for nothing
RECURSIVE live_contribution(_, _)
live_contribution(rows, at) ==
    IF rows = <<>> THEN 0
    ELSE (IF past_expiry(Head(rows), at) THEN 0 ELSE remaining_seconds_from_lot(Head(rows)))
         + live_contribution(Tail(rows), at)

\* process p takes a step
steps(p) == pc'[p] # pc[p] \/ loc'[p] # loc[p]

\* a scan step was given the rows `given` and leaves the rows `left` for later: a row past its
\* expiry among those it went through is the first one, on a step that marks it, and is
\* expired afterwards; and the scan stops again only at a row past its expiry
scan_marks(given, left, at, marking) ==
    /\ \A i \in 1..(Len(given) - Len(left)) :
           past_expiry(given[i], at) => (marking /\ i = 1 /\ lots'[given[1].id].status = "expired")
    /\ left # <<>> => past_expiry(Head(left), at)

\* no consumption: a consume_credit_lot_by_id step on a lot read as active whose expiry is at
\* or before the call's now returns 0 and leaves consumed_seconds as it is
expired_not_consumed(p) ==
    (/\ pc[p] = "cbi_try" /\ steps(p)
     /\ loc[p].cbi_lot.status = "active" /\ past_expiry(loc[p].cbi_lot, loc[p].cbi_now))
    => /\ loc'[p].ret = 0 /\ pc'[p] # "cbi_refetch"
       /\ lots'[loc[p].cbi_lot_id].consumed = lots[loc[p].cbi_lot_id].consumed
       /\ returned' = returned

\* no contribution: a step of summarize_credit_lots adds to its totals the remaining seconds of
\* the rows it goes through that are not past their expiry, and nothing else
expired_not_counted(p) ==
    (pc[p] \in {"sum_select", "sum_expire"} /\ steps(p))
    => LET l == loc[p]
           given == IF pc[p] = "sum_select"
                    THEN order_lots(summarize_excluding(select_lots_for_summary(l.sum_user),
                                                        l.sum_exclude))
                    ELSE l.sum_rows
           before == IF pc[p] = "sum_select" THEN 0 ELSE l.sum_sub + l.sum_pack
           left == loc'[p].sum_rows
       IN /\ (loc'[p].sum_sub + loc'[p].sum_pack) - before
                 = live_contribution(SubSeq(given, 1, Len(given) - Len(left)), l.sum_now)
          /\ scan_marks(given, left, l.sum_now, pc[p] = "sum_expire")
          /\ left # <<>> <=> pc'[p] = "sum_expire"

\* list_credit_lots_for_consumption marks the rows past their expiry and hands none of them on
expired_not_listed(p) ==
    (pc[p] \in {"ccl_start", "lst_expire"} /\ steps(p) /\ loc[p].ccl_remaining > 0)
    => LET l == loc[p]
           given == IF pc[p] = "ccl_start"
                    THEN select_lots_for_consumption(l.ccl_user, l.ccl_type, l.ccl_exclude)
                    ELSE l.lst_rows
           left == loc'[p].lst_rows
       IN /\ scan_marks(given, left, l.ccl_now, pc[p] = "lst_expire")
          /\ left # <<>> <=> pc'[p] = "lst_expire"
          /\ \A i \in DOMAIN loc'[p].lst_out : ~past_expiry(loc'[p].lst_out[i], l.ccl_now)

\* the conditional update of consume_credit_lot_by_id finds the row as the call read it
row_as_read(p) ==
    LET row == lots[loc[p].cbi_lot_id]
        lot == loc[p].cbi_lot
    IN row.consumed = lot.consumed /\ row.revoked = lot.revoked /\ row.status = lot.status

\* C11, as stated: a lot past its expiry is never consumed from, counts for nothing in the
\* totals of summarize_credit_lots, and is expired after the first consume, list or summarize
\* step that has read it as an active lot past its expiry.
C11_ExpiredOnFirstRead ==
    [][\A p \in Procs :
          /\ expired_not_consumed(p)
          /\ expired_not_counted(p)
          /\ expired_not_listed(p)
          /\ (/\ pc[p] = "cbi_try" /\ steps(p)
              /\ loc[p].cbi_lot.status = "active" /\ past_expiry(loc[p].cbi_lot, loc[p].cbi_now))
             => lots'[loc[p].cbi_lot_id].status = "expired"]_vars

\* C11, amended: as above, but consume_credit_lot_by_id expires the lot by a conditional update:
\* the lot is expired after its step if the row still has the consumed_seconds, revoked_seconds
\* and status the call read, and is left as the other writer left it if not.
C11_ExpiredLotsAreOut ==
    [][\A p \in Procs :
          /\ expired_not_consumed(p)
          /\ expired_not_counted(p)
          /\ expired_not_listed(p)
          /\ (/\ pc[p] = "cbi_try" /\ steps(p)
              /\ loc[p].cbi_lot.status = "active" /\ past_expiry(loc[p].cbi_lot, loc[p].cbi_now))
             => IF row_as_read(p) THEN lots'[loc[p].cbi_lot_id].status = "expired"
                ELSE lots' = lots]_vars

\* the pack is past its expiry and has been marked expired by a reader, while a
\* consume_credit_lot_by_id call that read another lot as active and past its expiry is about
\* to find that row changed by a call that started before the expiry
C11_Witness ==
    /\ lots[1].status = "expired"
    /\ \E p \in Procs :
         /\ pc[p] = "cbi_try" /\ loc[p].cbi_lot_id = 2
         /\ loc[p].cbi_lot.status = "active" /\ past_expiry(loc[p].cbi_lot, loc[p].cbi_now)
         /\ lots[2].status = "active" /\ lots[2].consumed > loc[p].cbi_lot.consumed

\* C12: a call of record_webhook_event_received returns true and inserts the row (status
\* received) when the event id has no row, and returns false and leaves every row as it is
\* when it has one, whatever status that row has reached; a row once inserted stays, so of
\* two calls with one event id the first returns true and the second false.
C12_RecordedOnce ==
    [][/\ \A p \in Procs :
            (pc[p] = "wh_record" /\ steps(p)) =>
                LET e == loc[p].wh_event IN
                IF events[e].status = "missing"
                THEN /\ loc'[p].wh_inserted
                     /\ events'[e].status = "received" /\ events'[e].error = 0
                     /\ \A f \in EventIds \ {e} : events'[f] = events[f]
                ELSE /\ ~loc'[p].wh_inserted
                     /\ events' = events
       /\ \A e \in EventIds : events[e].status # "missing" => events'[e].status # "missing"]_vars

\* the second call for an event id has returned false and left alone the row, which a handler
\* that raised had marked failed in between
C12_Witness ==
    \E p \in Procs :
        /\ pc[p] = "wh_claim" /\ ~loc[p].wh_inserted
        /\ events[loc[p].wh_event].status = "failed"
        /\ events[loc[p].wh_event].error > 0

\* ------------------------------------------------------------------------
\* SpecQuote: the user asks for the refund of an order in any of the shapes an
\* order and its lot can be in: two requests may overlap.
\* ------------------------------------------------------------------------
QuoteLot(g, c, r, s) == [id |-> 1, user |-> "u1", lot_type |-> "pack_order", source_key |-> "o1",
                         granted |-> g, consumed |-> c, revoked |-> r, expires |-> FarExpiry,
                         status |-> s]
QuoteOrder(t, c, s) == [NoOrder EXCEPT !.user = "u1", !.plan_type = t, !.paid = c, !.status = s]

\* (order, lots): a paid pack used more or less, for nothing, for a cent or for PaidCents;
\* a pack without a lot; a subscription order; a pack under refund; a refunded pack, its lot
\* revoked; a pack paid again after its lot was revoked; the pack of 3600 s paid 3000 cents
QuoteShapes ==
    {<<QuoteOrder("pack", c, "paid"), <<QuoteLot(RefundGranted, u, 0, "active")>>>> :
        c \in {0, 1, PaidCents}, u \in 0..RefundGranted}
    \cup {<<QuoteOrder("pack", PaidCents, "paid"), <<>>>>,
          <<QuoteOrder("subscription", PaidCents, "paid"), <<>>>>,
          <<QuoteOrder("pack", PaidCents, "refund_pending"), <<QuoteLot(RefundGranted, 0, 0, "active")>>>>,
          <<QuoteOrder("pack", PaidCents, "refunded"), <<QuoteLot(RefundGranted, 1, RefundGranted - 1, "revoked")>>>>,
          <<QuoteOrder("pack", PaidCents, "paid"), <<QuoteLot(RefundGranted, 1, RefundGranted - 1, "revoked")>>>>,
          <<QuoteOrder("pack", 3000, "paid"), <<QuoteLot(3600, 1200, 0, "active")>>>>}

InitQuote ==
    /\ \E sh \in QuoteShapes :
         /\ orders = [o \in OrderIds |-> sh[1]]
         /\ lots = sh[2]
         /\ ent = [u \in Users |-> snapshot_of(IF sh[1].status = "paid" THEN sh[2] ELSE <<>>, u, 0, 2, 0)]
    /\ returned = [i \in DOMAIN lots |-> lots[i].consumed]
    /\ cap = 2
    /\ now = 0
    /\ debt_due = [u \in Users |-> 0]
    /\ events = [e \in EventIds |-> NoEvent]
    /\ usage_ledger = <<>>
    /\ refunds = <<>>
    /\ trace = <<>>
    /\ pc = [p \in Procs |-> "idle"]
    /\ stack = [p \in Procs |-> <<>>]
    /\ loc = [p \in Procs |-> NoLocals]

NextQuote ==
    \E p \in Procs :
        \/ RefundRequested(p)
        \/ RequestPackRefund(p)
        \/ BillingSync(p)
        \/ summarize_credit_lots_select(p)

SpecQuote == InitQuote /\ [][NextQuote]_vars

\* the order of a request is not one it may refund: not there, not a pack, under refund or refunded
order_refused(user_id, o) ==
    \/ orders[o].status = "missing" \/ orders[o].user # user_id
    \/ orders[o].plan_type # "pack"
    \/ orders[o].status \in {"refund_pending", "refunded"}

\* the lot of the order gives nothing to refund: no lot, nothing granted or paid, or an amount
\* that is zero cents once rounded down
lot_refused(o, paid) ==
    \/ ~\E i \in DOMAIN lots : lots[i].lot_type = "pack_order" /\ lots[i].source_key = o
    \/ \E i \in DOMAIN lots :
         /\ lots[i].lot_type = "pack_order" /\ lots[i].source_key = o
         /\ \/ lots[i].granted <= 0 \/ paid <= 0
            \/ (paid * Max2(lots[i].granted - lots[i].consumed - lots[i].revoked, 0)) \div lots[i].granted = 0

\* C13: a request_pack_refund call that finds its order not refundable (missing, not a pack,
\* refund_pending or refunded) or its lot with nothing to refund (no lot, or an amount of zero)
\* raises at that read: it has changed no row of any table and the provider is not called.
C13_RefusedRefundChangesNothing ==
    [][\A p \in Procs :
          /\ (pc[p] \in {"rpr_fetch", "rpr_lot"} /\ steps(p))
             => (tables' = tables /\ pc'[p] \in {"idle", "rpr_lot", "rpr_transition"})
          /\ (pc[p] = "rpr_fetch" /\ steps(p) /\ order_refused(loc[p].rpr_user, loc[p].rpr_order))
             => (pc'[p] = "idle" /\ loc'[p] = [NoLocals EXCEPT !.exc = RefundErrorLen])
          /\ (pc[p] = "rpr_lot" /\ steps(p) /\ lot_refused(loc[p].rpr_order, loc[p].rpr_paid))
             => (pc'[p] = "idle" /\ loc'[p] = [NoLocals EXCEPT !.exc = RefundErrorLen])]_vars

\* a request is about to be refused for an amount of zero cents: seconds remain on the lot but
\* the cent paid for the pack is worth nothing once divided
C13_Witness ==
    \E p \in Procs :
        /\ pc[p] = "rpr_lot"
        /\ lot_refused(loc[p].rpr_order, loc[p].rpr_paid)
        /\ loc[p].rpr_paid = 1 /\ remaining_seconds_from_lot(lots[1]) > 0
        /\ refunds = <<>> /\ orders["o1"].status = "paid"

\* C14: every amount request_pack_refund has sent to the provider is the whole number of cents
\* paid * remaining / granted rounded down, remaining being max(granted - consumed - revoked, 0)
\* of the order's lot; it is at least 1 and at most the amount paid; and for the lot of 3600 s
\* with 1200 s consumed on an order paid 3000 cents it is 2000.
C14_RefundAmount ==
    \A k \in DOMAIN refunds :
        LET o == refunds[k].order
            i == CHOOSE j \in DOMAIN lots : lots[j].lot_type = "pack_order" /\ lots[j].source_key = o
            remaining == IF lots[i].granted - lots[i].consumed - lots[i].revoked > 0
                         THEN lots[i].granted - lots[i].consumed - lots[i].revoked ELSE 0
            amount == refunds[k].amount
        IN /\ amount * lots[i].granted <= orders[o].paid * remaining
           /\ (amount + 1) * lots[i].granted > orders[o].paid * remaining
           /\ amount >= 1 /\ amount <= orders[o].paid
           /\ (lots[i].granted = 3600 /\ lots[i].consumed = 1200 /\ orders[o].paid = 3000) => amount = 2000

\* the provider has been asked for 2000 cents for the pack of 3600 s with 1200 s consumed,
\* paid 3000 cents
C14_Witness ==
    /\ refunds # <<>>
    /\ refunds[1].amount = 2000 /\ orders["o1"].paid = 3000
    /\ lots[1].granted = 3600 /\ lots[1].consumed = 1200

\* the status changes of a webhook event row the life cycle allows; the stale reclaim hands a
\* processing row back as failed, for the claim that follows it
EventMoves == {<<"missing", "received">>, <<"received", "processing">>, <<"failed", "processing">>,
               <<"processing", "processed">>, <<"processing", "failed">>}

\* C15: every status change of a webhook event row is received -> processing,
\* failed -> processing, processing -> processed, processing -> failed or the stale reclaim of
\* a processing row (the insert apart); a row that has reached processed keeps that status.
C15_EventLifeCycle ==
    [][\A e \in EventIds :
          events'[e].status # events[e].status
              => <<events[e].status, events'[e].status>> \in EventMoves]_vars

\* ------------------------------------------------------------------------
\* SpecOrder: one pack order whose order.paid event failed after the order and
\* its lot were written (the provider delivers it again), the user's refund
\* requests, and the provider's order.refunded event, on two workers.
\* ------------------------------------------------------------------------
RefundedTotals == {0, PaidCents}         \* refunded_amount of the order.refunded payloads

InitOrder ==
    /\ lots = << [id |-> 1, user |-> "u1", lot_type |-> "pack_order", source_key |-> "o1",
                    granted |-> Plans["pack_small"].quota_seconds, consumed |-> 1, revoked |-> 0,
                  expires |-> PackExpiry, status |-> "active"] >>
    /\ returned = [i \in DOMAIN lots |-> lots[i].consumed]
    /\ cap = 2
    /\ now = 0
    /\ ent = [u \in Users |-> snapshot_of(lots, u, 0, cap, 0)]
    /\ debt_due = [u \in Users |-> 0]
    /\ orders = [o \in OrderIds |-> [NoOrder EXCEPT !.user = "u1", !.plan_type = "pack",
                                                    !.paid = PaidCents, !.status = "paid"]]
    /\ events = [e \in EventIds |->
                   IF e = "e1" THEN [NoEvent EXCEPT !.status = "failed", !.error = ErrorLimit]
                   ELSE NoEvent]
    /\ usage_ledger = <<>>
    /\ refunds = <<>>
    /\ trace = <<>>
    /\ pc = [p \in Procs |-> "idle"]
    /\ stack = [p \in Procs |-> <<>>]
    /\ loc = [p \in Procs |-> NoLocals]

\* the provider delivers an event again until a delivery of it has been answered with success
unacknowledged(event_id) == events[event_id].status # "processed"

OrderRefundRequested(p) ==
    /\ Len(refunds) < OrderRefundCalls
    /\ CallRequestPackRefund(p, "u1", "o1")

NextOrder ==
    \E p \in Procs :
        \/ OrderRefundRequested(p)
        \/ unacknowledged("e1") /\ CallWebhook(p, "e1", "u1", "o1", "pack_small")
        \/ unacknowledged("e2") /\ \E t \in RefundedTotals : CallWebhookRefunded(p, "e2", "o1", t)
        \/ RequestPackRefund(p)
        \/ handle_polar_webhook_record(p)
        \/ handle_polar_webhook_claim(p)
        \/ handle_polar_webhook_reclaim(p)
        \/ handle_polar_webhook_mark(p)
        \/ OrderPaid(p)
        \/ OrderRefunded(p)
        \/ apply_debt_paydown_for_lot_fetch(p)
        \/ BillingSync(p)
        \/ summarize_credit_lots_select(p)
        \/ revoke_remaining_credit_lot_fetch(p)
        \/ revoke_remaining_credit_lot_try(p)

SpecOrder == InitOrder /\ [][NextOrder]_vars

\* the status changes an order may make
OrderMoves == {<<"paid", "refund_pending">>, <<"refund_pending", "refunded">>, <<"refund_pending", "paid">>}

\* a worker hears the provider's clear rejection and takes the order back to paid
reopens(p, o) == pc[p] = "rpr_reopen" /\ pc'[p] # pc[p] /\ loc[p].rpr_order = o

\* C16: every status change of an order is paid -> refund_pending, refund_pending ->
\* refunded, or refund_pending -> paid by the call whose refund the provider clearly rejected;
\* no order.paid delivery sets a refund_pending or refunded order back to paid.
C16_OrderLifeCycle ==
    [][\A o \in OrderIds :
          orders'[o].status # orders[o].status =>
              /\ <<orders[o].status, orders'[o].status>> \in OrderMoves
              /\ orders'[o].status = "paid" => \E p \in Procs : reopens(p, o)]_vars

\* the status changes a credit lot may make
LotMoves == {<<"active", "expired">>, <<"active", "revoked">>}

\* C17: every status change of a credit lot is active -> expired or active -> revoked: an
\* expired or revoked lot never becomes active again, also when the grant that created it is
\* replayed, revoked and expired never turn into each other, and no lot row is deleted.
C17_LotLifeCycle ==
    [][/\ Len(lots') >= Len(lots)
       /\ \A i \in DOMAIN lots :
             /\ lots'[i].id = lots[i].id
             /\ lots'[i].status # lots[i].status
                   => <<lots[i].status, lots'[i].status>> \in LotMoves]_vars


\* ------------------------------------------------------------------------
\* SpecNack: the provider delivers an order.paid event whose handler may fail
\* at a store request, and an event of a type the dispatch does not know, to
\* two workers, and delivers them again.
\* ------------------------------------------------------------------------
NextNack ==
    \E p \in Procs :
        \/ CallWebhook(p, "e1", "u1", "o1", "pack_small")
        \/ CallWebhookOther(p, "e2")
        \/ Webhook(p)
        \/ OrderPaid(p)
        \/ Paydown(p)
        \/ BillingSync(p)
        \/ store_request_fails(p)
        \/ summarize_credit_lots_select(p)
        \/ consume_credit_lot_by_id_fetch(p)
        \/ consume_credit_lot_by_id_try(p)

SpecNack == InitPaid /\ [][NextNack]_vars

HandledTypes == {"order.paid", "order.refunded"}

other_events_kept(e) == \A f \in EventIds \ {e} : events'[f] = events[f]

sends(p, outcome) ==
    /\ pc[p] = "rpr_provider" /\ steps(p)
    /\ refunds' = Append(refunds, [order |-> loc[p].rpr_order, amount |-> loc[p].rpr_amount, by |-> p,
                                   outcome |-> outcome])

\* C19: a create-refund request answered by a 409 or duplicate message, or not answered in a
\* way the call can read, ends the call at once with an error for the caller: the one request
\* has gone out and no other follows, no row of any table is changed, and the order stays
\* refund_pending for as long as only refund requests act on it.
C19_PendingKeptOnDoubt ==
    /\ [][\A p \in Procs : \A outcome \in {"conflict", "unknown"} :
            sends(p, outcome) =>
                /\ <<lots, ent, orders, events, usage_ledger>>' = <<lots, ent, orders, events, usage_ledger>>
                /\ orders[loc[p].rpr_order].status = "refund_pending"
                /\ pc'[p] = "idle"
                /\ loc'[p].exc = (IF outcome = "conflict" THEN DuplicateErrorLen ELSE UnreachableErrorLen)]_vars
    /\ [](\A i \in DOMAIN refunds :
             refunds[i].outcome \in {"conflict", "unknown"}
                => /\ orders[refunds[i].order].status = "refund_pending"
                   /\ \A j \in DOMAIN refunds : j > i => refunds[j].order # refunds[i].order)

\* the provider was unreachable for the one request sent; the call has raised, the order is
\* refund_pending, and a later call of the other worker was refused without a request
C19_Witness ==
    /\ Len(refunds) = 1 /\ refunds[1].outcome = "unknown"
    /\ orders["o1"].status = "refund_pending"
    /\ pc[refunds[1].by] = "idle" /\ loc[refunds[1].by].exc = UnreachableErrorLen
    /\ \E q \in Procs \ {refunds[1].by} : pc[q] = "idle" /\ loc[q].exc = RefundErrorLen


\* no webhook delivery has claimed an event yet
undelivered == events["e1"].status = "failed" /\ events["e2"].status = "missing"

\* what is left of the pack's lot
pack_left == lots[1].granted - lots[1].consumed - lots[1].revoked

\* C20: after a clear rejection the call moves the order back to paid if it is still
\* refund_pending, and leaves it as it is otherwise (an order.refunded event has marked it
\* refunded, say); it then re-syncs the snapshot and raises the provider's error.  With no
\* webhook in play the pack is out of pack_available while the request is in flight and
\* counts again once the call has returned.
C20_RejectedRefundReopens ==
    /\ [][\A p \in Procs :
            LET o == loc[p].rpr_order IN
            /\ (pc[p] = "rpr_reopen" /\ steps(p))
                  => /\ orders'[o].status = (IF orders[o].status = "refund_pending" THEN "paid" ELSE orders[o].status)
                     /\ <<lots, ent, events, usage_ledger, refunds>>' = <<lots, ent, events, usage_ledger, refunds>>
                     /\ pc'[p] = "bsy_fetch" /\ Head(stack'[p]) = "rpr_reraise"
            /\ (pc[p] = "rpr_reraise" /\ steps(p))
                  => /\ tables' = tables
                     /\ pc'[p] = "idle" /\ loc'[p].exc = ProviderErrorLen]_vars
    /\ []((undelivered /\ refunds = <<>> /\ \E p \in Procs : pc[p] = "rpr_provider")
             => ent["u1"].pack_avail = 0)
    /\ []((undelivered /\ AllIdle /\ Len(refunds) = 1 /\ refunds[1].outcome = "rejected")
             => /\ orders["o1"].status = "paid"
                /\ ent["u1"].pack_avail = pack_left)

\* the provider has clearly rejected the one request: the call has raised the provider's
\* error, the order is paid again and the two seconds left on the pack are available
C20_Witness ==
    /\ undelivered /\ AllIdle
    /\ Len(refunds) = 1 /\ refunds[1].outcome = "rejected"
    /\ loc[refunds[1].by].exc = ProviderErrorLen
    /\ orders["o1"].status = "paid"
    /\ ent["u1"].pack_avail = 2

\* ------------------------------------------------------------------------
\* SpecCrash: the order.paid event of a pack order is delivered to a user in
\* debt; the worker running the handler may stop for good at any point of
\* it; time passes, the claim of the stopped worker grows stale and the
\* provider's next delivery runs the handler again.
\* ------------------------------------------------------------------------
InitCrash ==
    /\ lots = <<>>
    /\ returned = <<>>
    /\ cap \in {1, 2}
    /\ now = 0
    /\ \E d \in 0..InitDebt :
         /\ ent = [u \in Users |-> snapshot_of(lots, u, d, cap, 0)]
         /\ debt_due = [u \in Users |-> d]
         /\ trace = <<[op |-> "start", debt |-> d, at |-> "idle"]>>
    /\ orders = [o \in OrderIds |-> NoOrder]
    /\ events = [e \in EventIds |-> NoEvent]
    /\ usage_ledger = <<>>
    /\ refunds = <<>>
    /\ pc = [p \in Procs |-> "idle"]
    /\ stack = [p \in Procs |-> <<>>]
    /\ loc = [p \in Procs |-> NoLocals]

crashed == Len(trace) > 1

\* the worker stops between two requests of the handler: its frames are gone, the rows stay
Crash(p) ==
    /\ ~crashed
    /\ in_stack(stack[p], "wh_mark")
    /\ pc' = [pc EXCEPT ![p] = "idle"]
    /\ stack' = [stack EXCEPT ![p] = <<>>]
    /\ loc' = [loc EXCEPT ![p] = NoLocals]
    /\ trace' = Append(trace, [op |-> "crash", debt |-> 0, at |-> pc[p]])
    /\ UNCHANGED <<tables, cap, now, returned, debt_due>>

\* time passes over the stopped worker's claim
CrashTick == crashed /\ Tick

NextCrash ==
    \/ CrashTick
    \/ \E p \in Procs :
        \/ unacknowledged("e1") /\ CallWebhook(p, "e1", "u1", "o1", "pack_small")
        \/ Crash(p)
        \/ handle_polar_webhook_record(p)
        \/ handle_polar_webhook_claim(p)
        \/ handle_polar_webhook_reclaim(p)
        \/ handle_polar_webhook_mark(p)
        \/ OrderPaid(p)
        \/ Paydown(p)
        \/ BillingSync(p)
        \/ summarize_credit_lots_select(p)
        \/ consume_credit_lot_by_id_fetch(p)
        \/ consume_credit_lot_by_id_try(p)

SpecCrash == InitCrash /\ [][NextCrash]_vars

\* the user's lots of a type that are active and not past their expiry
live_lots(user_id, lot_type) ==
    {lots[i] : i \in {j \in DOMAIN lots : /\ lots[j].user = user_id /\ lots[j].lot_type = lot_type
                                           /\ lots[j].status = "active" /\ ~is_expired(lots[j], now)}}

RECURSIVE consumed_of(_, _)
consumed_of(rows, user_id) ==
    IF rows = <<>> THEN 0
    ELSE (IF Head(rows).user = user_id THEN Head(rows).consumed ELSE 0) + consumed_of(Tail(rows), user_id)

\* C21: a handler that stops between two of its store writes leaves every lot within its
\* grant, and once a later delivery has run the handler to its end, sync included, the
\* snapshot accounts for every second taken from the lots: the debt is the debt at the start
\* less what the lots gave for it, and pack_available is what the lots have left.
C21_CrashLeavesLedgerWhole ==
    /\ \A i \in DOMAIN lots :
          /\ lots[i].consumed >= 0 /\ lots[i].revoked >= 0
          /\ lots[i].consumed + lots[i].revoked <= lots[i].granted
    /\ (crashed /\ AllIdle /\ events["e1"].status = "processed")
          => /\ ent["u1"].debt = trace[1].debt - consumed_of(lots, "u1")
             /\ ent["u1"].pack_avail = SumRemaining(live_lots("u1", "pack_order"))

\* the retry loop of the process has lost its last attempt
exhausted(p) ==
    \/ pc[p] = "cbi_refetch" /\ loc[p].cbi_i + 1 >= MaxRetries
    \/ pc[p] = "rev_refetch" /\ loc[p].rev_i + 1 >= RevokeRetries
    \/ pc[p] = "adj_fetch" /\ loc[p].adj_delta # 0 /\ loc[p].adj_i >= AdjustRetries

\* C22: a retry loop that has lost every attempt to concurrent writers ends its call with an
\* error for the caller, not with a result, and has changed neither a lot nor the debt.
C22_ExhaustionIsAnError ==
    [][\A p \in Procs :
          (exhausted(p) /\ steps(p)) =>
              /\ lots' = lots /\ ent' = ent
              /\ pc'[p] = "idle" /\ loc'[p].exc > 0]_vars

\* the lots a snapshot counts for a type: live and with seconds left
counted_lots(user_id, lot_type) == {r \in live_lots(user_id, lot_type) : remaining_seconds_from_lot(r) > 0}

\* the expiries of the pack lots counted
counted_expiries(user_id) == {r.expires : r \in counted_lots(user_id, "pack_order")} \ {NoExpiry}

\* C23: once an operation that changed the ledger has completed and nothing is in progress
\* for the user, subscription_available_seconds and pack_available_seconds are the sums of
\* what the user's active, unexpired lots of each type have left, and pack_expires_at is the
\* earliest expiry of the pack lots counted.
C23_SnapshotMatchesLots ==
    \A u \in Users :
        (AllIdle /\ ent[u].exists /\ usage_ledger # <<>>) =>
            /\ ent[u].sub_avail = SumRemaining(live_lots(u, "subscription_cycle"))
            /\ ent[u].pack_avail = SumRemaining(live_lots(u, "pack_order"))
            /\ ent[u].pack_expires = (IF counted_expiries(u) = {} THEN NoExpiry
                                      ELSE CHOOSE e \in counted_expiries(u) : \A f \in counted_expiries(u) : e <= f)


\* ------------------------------------------------------------------------
\* SpecAllow: jobs are admitted through ensure_usage_allowed while a worker
\* records the usage of finished ones.
\* ------------------------------------------------------------------------
AllowDuration == 3      \* the longest job asked about

InitAllow ==
    /\ lots \in UsageLedgers
    /\ returned = [i \in DOMAIN lots |-> lots[i].consumed]
    /\ cap \in {1, 2}
    /\ now = 1
    /\ \E d \in 0..InitDebt :
         /\ ent \in {[u \in Users |-> snapshot_of(lots, u, d, cap, 0)]}
                    \cup (IF lots = <<>> /\ d = 0 THEN {[u \in Users |-> NoEnt]} ELSE {})
         /\ debt_due = [u \in Users |-> d]
    /\ orders = [o \in OrderIds |-> NoOrder]
    /\ events = [e \in EventIds |-> NoEvent]
    /\ usage_ledger = <<>>
    /\ refunds = <<>>
    /\ trace = <<>>
    /\ pc = [p \in Procs |-> "idle"]
    /\ stack = [p \in Procs |-> <<>>]
    /\ loc = [p \in Procs |-> NoLocals]

JobAsked(p) ==
    \E d \in {NoDuration} \cup 0..AllowDuration : CallEnsureUsageAllowed(p, "u1", d)

NextAllow ==
    \E p \in Procs :
        \/ JobAsked(p)
        \/ ensure_usage_allowed_fetch(p)
        \/ ensure_usage_allowed_ent(p)
        \/ JobFinished(p)
        \/ RecordUsage(p)
        \/ EnsureFree(p)
        \/ ConsumeLots(p)
        \/ consume_credit_lot_by_id_fetch(p)
        \/ consume_credit_lot_by_id_try(p)
        \/ consume_credit_lot_by_id_refetch(p)
        \/ Summarize(p)
        \/ usage_sync_entitlement_snapshot_write(p)

SpecAllow == InitAllow /\ [][NextAllow]_vars

asking(p) == loc[p].eua_user # ""

\* the step of ensure_usage_allowed that returns or raises
decides(p) == asking(p) /\ pc[p] \in {"eua_fetch", "eua_ent"} /\ pc'[p] = "idle"

\* the snapshot the deciding step holds
snapshot_held(p) == IF pc[p] = "eua_fetch" THEN ent[loc[p].eua_user] ELSE loc[p].efe_row

refused(row, duration_seconds) ==
    \/ row.blocked
    \/ /\ duration_seconds > 0
       /\ row.debt + Max2(duration_seconds - (row.sub_avail + row.pack_avail), 0) > cap

\* C24 as stated: ensure_usage_allowed raises exactly when the snapshot is blocked or the
\* projected debt exceeds the cap, and no step of the call changes a lot, an order or the debt.
C24_AllowedChangesNothing ==
    [][\A p \in Procs :
          /\ decides(p) => (loc'[p].exc > 0 <=> refused(snapshot_held(p), loc[p].eua_duration))
          /\ (asking(p) /\ steps(p)) =>
                /\ lots' = lots
                /\ orders' = orders
                /\ \A u \in Users : ent'[u].debt = ent[u].debt]_vars

\* C24: ensure_usage_allowed raises exactly when the snapshot it read is blocked or the
\* projected debt exceeds the cap; for a user who has a snapshot the call is one read and
\* changes no row; for a user without one it first provisions the free tier (a lot and the
\* snapshot) and decides on the snapshot read back, and the deciding step changes no row.
C24_AllowedOrRefused ==
    [][\A p \in Procs :
          /\ decides(p) =>
                /\ loc'[p].exc > 0 <=> refused(snapshot_held(p), loc[p].eua_duration)
                /\ tables' = tables
          /\ (asking(p) /\ steps(p) /\ pc[p] = "eua_fetch" /\ ent[loc[p].eua_user].exists) => decides(p)
          /\ (asking(p) /\ steps(p) /\ tables' # tables) =>
                /\ loc[p].efe_user = loc[p].eua_user
                /\ pc[p] \notin {"eua_fetch", "eua_ent"}]_vars

\* after some usage was recorded, a job was refused for its projected debt alone
C24_Witness ==
    \E p \in Procs : /\ pc[p] = "idle" /\ loc[p].exc = InsufficientErrorLen
                     /\ ent["u1"].exists /\ ~ent["u1"].blocked /\ usage_ledger # <<>>


\* ------------------------------------------------------------------------
\* SpecFrozen: the refund of a pack is requested while workers record the
\* usage of finished jobs of the same user.
\* ------------------------------------------------------------------------
InitFrozen ==
    /\ lots = << [id |-> 1, user |-> "u1", lot_type |-> "pack_order", source_key |-> "o1",
                  granted |-> RefundGranted, consumed |-> 1, revoked |-> 0, expires |-> FarExpiry,
                  status |-> "active"] >>
    /\ returned = [i \in DOMAIN lots |-> lots[i].consumed]
    /\ cap = 2
    /\ now = 0
    /\ ent = [u \in Users |-> snapshot_of(lots, u, 0, cap, 0)]
    /\ debt_due = [u \in Users |-> 0]
    /\ orders = [o \in OrderIds |-> [NoOrder EXCEPT !.user = "u1", !.plan_type = "pack",
                                                    !.paid = PaidCents, !.status = "paid"]]
    /\ events = [e \in EventIds |-> NoEvent]
    /\ usage_ledger = <<>>
    /\ refunds = <<>>
    /\ trace = <<>>
    /\ pc = [p \in Procs |-> "idle"]
    /\ stack = [p \in Procs |-> <<>>]
    /\ loc = [p \in Procs |-> NoLocals]

\* a job of one second finished; the workers stop recording once a second is owed
FrozenJob(p) ==
    /\ debt_due["u1"] = 0
    /\ CallRecordUsage(p, "u1", 1)

NextFrozen ==
    \E p \in Procs :
        \/ OrderRefundRequested(p)
        \/ request_pack_refund_fetch(p)
        \/ request_pack_refund_lot(p)
        \/ request_pack_refund_transition(p)
        \/ request_pack_refund_provider(p)
        \/ request_pack_refund_reopen(p)
        \/ request_pack_refund_reraise(p)
        \/ BillingSync(p)
        \/ FrozenJob(p)
        \/ record_usage_for_job_fetch(p)
        \/ record_usage_for_job_sub_done(p)
        \/ record_usage_for_job_pack_done(p)
        \/ record_usage_for_job_end(p)
        \/ consume_credit_lots_start(p)
        \/ consume_credit_lots_loop(p)
        \/ consume_credit_lot_by_id_fetch(p)
        \/ consume_credit_lot_by_id_try(p)
        \/ consume_credit_lot_by_id_refetch(p)
        \/ summarize_credit_lots_select(p)
        \/ usage_sync_entitlement_snapshot_write(p)

SpecFrozen == InitFrozen /\ [][NextFrozen]_vars

\* the step of a sync that writes the snapshot
writes_snapshot(p) == pc[p] \in {"usy_write", "bsy_write"} /\ pc'[p] # pc[p]

\* C25: while the pack order is refund_pending, a snapshot written for its user leaves the
\* order's lot out of pack_available_seconds (the user's only pack here, so 0 is written).
C25_FrozenPackNotCounted ==
    [][\A p \in Procs :
          (writes_snapshot(p) /\ orders["o1"].status = "refund_pending" /\ orders'["o1"].status = "refund_pending")
              => ent'["u1"].pack_avail = 0]_vars


\* C26: while the pack order is refund_pending, consumed_seconds of its lot does not grow.
C26_FrozenPackNotConsumed ==
    [][orders["o1"].status = "refund_pending" => lots'[1].consumed <= lots[1].consumed]_vars


\* ------------------------------------------------------------------------
\* SpecGrant: a pack is paid by a user in debt while workers record the
\* usage of the user's finished jobs.
\* ------------------------------------------------------------------------
InitGrant ==
    /\ lots = <<>>
    /\ returned = <<>>
    /\ cap = 3
    /\ now = 0
    /\ \E d \in 1..InitDebt :
         /\ ent = [u \in Users |-> snapshot_of(lots, u, d, cap, 0)]
         /\ debt_due = [u \in Users |-> d]
    /\ orders = [o \in OrderIds |-> NoOrder]
    /\ events = [e \in EventIds |-> NoEvent]
    /\ usage_ledger = <<>>
    /\ refunds = <<>>
    /\ trace = <<>>
    /\ pc = [p \in Procs |-> "idle"]
    /\ stack = [p \in Procs |-> <<>>]
    /\ loc = [p \in Procs |-> NoLocals]

\* a job of one second finished; the workers stop recording once MaxDebt seconds are owed
GrantJob(p) ==
    /\ debt_due["u1"] < MaxDebt
    /\ CallRecordUsage(p, "u1", 1)

NextGrant ==
    \E p \in Procs :
        \/ unacknowledged("e1") /\ CallWebhook(p, "e1", "u1", "o1", "pack_small")
        \/ handle_polar_webhook_record(p)
        \/ handle_polar_webhook_claim(p)
        \/ handle_polar_webhook_mark(p)
        \/ OrderPaid(p)
        \/ Paydown(p)
        \/ BillingSync(p)
        \/ GrantJob(p)
        \/ record_usage_for_job_fetch(p)
        \/ record_usage_for_job_sub_done(p)
        \/ record_usage_for_job_pack_done(p)
        \/ record_usage_for_job_end(p)
        \/ consume_credit_lots_start(p)
        \/ consume_credit_lots_loop(p)
        \/ consume_credit_lot_by_id_fetch(p)
        \/ consume_credit_lot_by_id_try(p)
        \/ consume_credit_lot_by_id_refetch(p)
        \/ summarize_credit_lots_select(p)
        \/ usage_sync_entitlement_snapshot_write(p)

SpecGrant == InitGrant /\ [][NextGrant]_vars

\* handler q has granted lot i and has not yet taken its paydown from it
paydown_ahead(q, i) ==
    /\ loc[q].pdn_lot = i
    /\ pc[q] = "pdn_fetch" \/ in_stack(stack[q], "pdn_adjust")
    /\ ent[loc[q].pdn_user].debt > 0

\* C27: ordinary usage takes no second from a newly granted lot while the paydown of the
\* handler that granted it to a user in debt is still ahead.
C27_PaydownBeforeUsage ==
    [][\A p \in Procs : \A i \in DOMAIN lots :
          (loc[p].ruj_user # "" /\ steps(p) /\ lots'[i].consumed > lots[i].consumed)
              => ~\E q \in Procs : paydown_ahead(q, i)]_vars


\* ------------------------------------------------------------------------
\* SpecPaydown: deliveries of order.paid for a user whose debt at the start
\* is on record.
\* ------------------------------------------------------------------------
SpecPaydown == InitCrash /\ [][NextPaid]_vars

\* C28: with no operation in progress, what the lots were charged for paydown is what the
\* debt went down by (no usage is recorded here, so every consumed second is a paydown).
C28_PaydownConserved ==
    AllIdle => consumed_of(lots, "u1") = trace[1].debt - ent["u1"].debt


\* ------------------------------------------------------------------------
\* SpecAdjust: concurrent callers of adjust_entitlement_debt on one user;
\* trace holds the debt at the start and the delta of every call made.
\* ------------------------------------------------------------------------
MaxAdjustCalls == 2     \* calls of adjust_entitlement_debt
AdjustDelta == 2        \* largest delta_seconds, either way

InitAdjust ==
    /\ lots = <<>>
    /\ returned = <<>>
    /\ cap = 2
    /\ now = 0
    /\ \E d \in 0..InitDebt :
         /\ ent \in {[u \in Users |-> snapshot_of(lots, u, d, cap, 0)]}
                    \cup (IF d = 0 THEN {[u \in Users |-> NoEnt]} ELSE {})
         /\ debt_due = [u \in Users |-> d]
         /\ trace = <<[op |-> "start", debt |-> d, at |-> "idle"]>>
    /\ orders = [o \in OrderIds |-> NoOrder]
    /\ events = [e \in EventIds |-> NoEvent]
    /\ usage_ledger = <<>>
    /\ refunds = <<>>
    /\ pc = [p \in Procs |-> "idle"]
    /\ stack = [p \in Procs |-> <<>>]
    /\ loc = [p \in Procs |-> NoLocals]

\* adjust_entitlement_debt(user_id, delta_seconds, debt_cap_seconds) is called
CallAdjust(p, user_id, delta_seconds) ==
    /\ pc[p] = "idle"
    /\ Len(trace) <= MaxAdjustCalls
    /\ Call(p, "adj_fetch", "idle", [NoLocals EXCEPT !.adj_user = user_id, !.adj_delta = delta_seconds])
    /\ trace' = Append(trace, [op |-> "adjust", debt |-> delta_seconds, at |-> p])
    /\ UNCHANGED <<tables, cap, now, returned, debt_due>>

NextAdjust ==
    \E p \in Procs :
        \/ \E delta \in (0 - AdjustDelta)..AdjustDelta : CallAdjust(p, "u1", delta)
        \/ adjust_entitlement_debt_fetch(p)
        \/ adjust_entitlement_debt_cas(p)

SpecAdjust == InitAdjust /\ [][NextAdjust]_vars

\* the debt after the calls of the trace, applied one at a time in the given order
RECURSIVE debt_after(_, _)
debt_after(debt_seconds, order) ==
    IF order = <<>> THEN debt_seconds
    ELSE debt_after(Max2(debt_seconds + trace[Head(order) + 1].debt, 0), Tail(order))

call_orders ==
    LET n == Len(trace) - 1
    IN {f \in [1..n -> 1..n] : \A i \in 1..n : \A j \in 1..n : i # j => f[i] # f[j]}

\* C29: adjust_entitlement_debt with a delta other than 0 stores max(current + delta, 0) for
\* the debt current at its conditional update and returns what it stored; the debt is never
\* negative; with delta 0 it writes nothing and returns the stored debt; and once every call
\* has returned, the debt is what the deltas give applied one at a time in some order.
C29_AdjustIsAtomic ==
    /\ [](\A u \in Users : ent[u].debt >= 0 /\ ent[u].blocked = (ent[u].exists /\ ent[u].debt >= cap))
    /\ [][\A p \in Procs :
            /\ (pc[p] = "adj_cas" /\ pc'[p] = "idle") =>
                  /\ ent'["u1"].debt = Max2(ent["u1"].debt + loc[p].adj_delta, 0)
                  /\ loc'[p].ret = ent'["u1"].debt
            /\ (pc[p] = "adj_cas" /\ steps(p) /\ pc'[p] # "idle") => ent' = ent
            /\ (pc[p] = "adj_fetch" /\ loc[p].adj_delta = 0 /\ steps(p)) =>
                  /\ ent' = ent
                  /\ pc'[p] = "idle"
                  /\ loc'[p].ret = ent["u1"].debt]_vars
    /\ [](AllIdle => /\ \A p \in Procs : loc[p].exc = 0
                     /\ \E order \in call_orders : ent["u1"].debt = debt_after(trace[1].debt, order))

\* two calls lowered and raised the debt at once, one lost its conditional update and tried
\* again, and both have returned
C29_Witness ==
    /\ AllIdle
    /\ Len(trace) = 3
    /\ trace[2].debt < 0 /\ trace[3].debt > 0
    /\ trace[2].at # trace[3].at
    /\ \E p \in Procs : loc[p].ret = ent["u1"].debt /\ ent["u1"].debt # debt_after(trace[1].debt, <<1, 2>>)


\* ------------------------------------------------------------------------
\* SpecSync: the refund of a pack is requested, whose syncs are given no
\* debt, while adjust_entitlement_debt is called for the same user.
\* ------------------------------------------------------------------------
InitSync ==
    /\ lots = << [id |-> 1, user |-> "u1", lot_type |-> "pack_order", source_key |-> "o1",
                  granted |-> RefundGranted, consumed |-> 1, revoked |-> 0, expires |-> FarExpiry,
                  status |-> "active"] >>
    /\ returned = [i \in DOMAIN lots |-> lots[i].consumed]
    /\ cap = 2
    /\ now = 0
    /\ \E d \in 0..InitDebt :
         /\ ent = [u \in Users |-> snapshot_of(lots, u, d, cap, 0)]
         /\ debt_due = [u \in Users |-> d]
         /\ trace = <<[op |-> "start", debt |-> d, at |-> "idle"]>>
    /\ orders = [o \in OrderIds |-> [NoOrder EXCEPT !.user = "u1", !.plan_type = "pack",
                                                    !.paid = PaidCents, !.status = "paid"]]
    /\ events = [e \in EventIds |-> NoEvent]
    /\ usage_ledger = <<>>
    /\ refunds = <<>>
    /\ pc = [p \in Procs |-> "idle"]
    /\ stack = [p \in Procs |-> <<>>]
    /\ loc = [p \in Procs |-> NoLocals]

\* one call of adjust_entitlement_debt is made beside the refund request
SyncAdjust(p) ==
    /\ Len(trace) = 1
    /\ \E delta \in (0 - AdjustDelta)..AdjustDelta : CallAdjust(p, "u1", delta)

NextSync ==
    \E p \in Procs :
        \/ OrderRefundRequested(p)
        \/ request_pack_refund_fetch(p)
        \/ request_pack_refund_lot(p)
        \/ request_pack_refund_transition(p)
        \/ request_pack_refund_provider(p)
        \/ request_pack_refund_reopen(p)
        \/ request_pack_refund_reraise(p)
        \/ BillingSync(p)
        \/ summarize_credit_lots_select(p)
        \/ SyncAdjust(p)
        \/ adjust_entitlement_debt_fetch(p)
        \/ adjust_entitlement_debt_cas(p)

SpecSync == InitSync /\ [][NextSync]_vars

\* C30: a sync that is given no debt leaves the debt to the adjustments: once the refund
\* request and the adjust_entitlement_debt calls have returned, the stored debt is the debt
\* at the start with the deltas applied one at a time in some order.
C30_SyncKeepsDebt ==
    AllIdle => \E order \in call_orders : ent["u1"].debt = debt_after(trace[1].debt, order)


\* C31: a revoke_remaining_credit_lot that succeeds on a lot with r > 0 seconds remaining at
\* its conditional update adds r to revoked_seconds, sets the status revoked, leaves
\* consumed_seconds alone and returns r; a revoked lot has consumed + revoked = granted, and
\* no consume takes a second from it afterwards.
C31_RevokeTakesTheRest ==
    /\ [](\A i \in DOMAIN lots :
            lots[i].status = "revoked" => lots[i].consumed + lots[i].revoked = lots[i].granted)
    /\ [][\A i \in DOMAIN lots :
            /\ lots[i].status = "revoked" => lots'[i] = lots[i]
            /\ \A p \in Procs :
                 (pc[p] = "rev_try" /\ pc'[p] = "idle" /\ loc[p].rev_lot_id = i /\ loc'[p].ret > 0) =>
                     LET r == lots[i].granted - lots[i].consumed - lots[i].revoked IN
                     /\ lots[i].status = "active"
                     /\ loc'[p].ret = r
                     /\ lots'[i] = [lots[i] EXCEPT !.revoked = @ + r, !.status = "revoked"]]_vars

\* a revoke took what a consume had left, while another consume still holds the row it read
\* before the revoke
C31_Witness ==
    /\ lots[1].status = "revoked" /\ lots[1].consumed > 0 /\ lots[1].revoked > 0
    /\ \E p \in Procs, q \in Procs :
         /\ pc[p] = "idle" /\ loc[p].ret = lots[1].revoked
         /\ pc[q] = "cbi_try" /\ loc[q].cbi_lot.status = "active"


\* ------------------------------------------------------------------------
\* SpecRevoked: order.refunded is delivered for an order of a user whose
\* finished jobs are being recorded.
\* ------------------------------------------------------------------------
RevokedGranted == 6     \* granted_seconds of the pack the refund is for
RevokedJobs == 5        \* one-second jobs recorded beside the handler
PartCents == 3          \* a refunded total short of the paid amount

RevokedLots ==
    [pack |-> << [id |-> 1, user |-> "u1", lot_type |-> "pack_order", source_key |-> "o1",
                  granted |-> RevokedGranted, consumed |-> 0, revoked |-> 0, expires |-> FarExpiry,
                  status |-> "active"] >>,
     subscription |-> << [id |-> 1, user |-> "u1", lot_type |-> "subscription_cycle", source_key |-> "s1",
                          granted |-> 2, consumed |-> 0, revoked |-> 0, expires |-> FarExpiry,
                          status |-> "active"] >>]

InitRevoked ==
    /\ \E t \in {"pack", "subscription"} :
         /\ lots = RevokedLots[t]
         /\ orders = [o \in OrderIds |-> [NoOrder EXCEPT !.user = "u1", !.plan_type = t, !.paid = PaidCents,
                                                         !.status = IF t = "pack" THEN "refund_pending"
                                                                   ELSE "paid"]]
    /\ returned = [i \in DOMAIN lots |-> lots[i].consumed]
    /\ cap = 2
    /\ now = 0
    /\ ent = [u \in Users |-> snapshot_of(lots, u, 0, cap, 0)]
    /\ debt_due = [u \in Users |-> 0]
    /\ events = [e \in EventIds |-> NoEvent]
    /\ usage_ledger = <<>>
    /\ refunds = <<>>
    /\ trace = <<>>
    /\ pc = [p \in Procs |-> "idle"]
    /\ stack = [p \in Procs |-> <<>>]
    /\ loc = [p \in Procs |-> NoLocals]

\* a job of one second finished
RevokedJob(p) ==
    /\ Len(usage_ledger) < RevokedJobs
    /\ debt_due["u1"] = 0
    /\ CallRecordUsage(p, "u1", 1)

\* order.refunded is delivered once, with the total refunded on the order
DeliverRefunded(p) ==
    /\ events["e1"].status = "missing"
    /\ \E t \in {0, PartCents, PaidCents} : CallWebhookRefunded(p, "e1", "o1", t)

NextRevoked ==
    \E p \in Procs :
        \/ DeliverRefunded(p)
        \/ handle_polar_webhook_record(p)
        \/ handle_polar_webhook_claim(p)
        \/ handle_polar_webhook_mark(p)
        \/ OrderRefunded(p)
        \/ revoke_remaining_credit_lot_fetch(p)
        \/ revoke_remaining_credit_lot_try(p)
        \/ revoke_remaining_credit_lot_refetch(p)
        \/ BillingSync(p)
        \/ RevokedJob(p)
        \/ record_usage_for_job_fetch(p)
        \/ record_usage_for_job_sub_done(p)
        \/ record_usage_for_job_pack_done(p)
        \/ record_usage_for_job_end(p)
        \/ consume_credit_lots_start(p)
        \/ consume_credit_lots_loop(p)
        \/ consume_credit_lot_by_id_fetch(p)
        \/ consume_credit_lot_by_id_try(p)
        \/ consume_credit_lot_by_id_refetch(p)
        \/ summarize_credit_lots_select(p)
        \/ usage_sync_entitlement_snapshot_write(p)

SpecRevoked == InitRevoked /\ [][NextRevoked]_vars

\* the step with which a run of the order.refunded handler ends without having raised
refunded_handled(p) == pc[p] = "wh_mark" /\ loc[p].wh_type = "order.refunded" /\ pc'[p] = "idle"

\* C32: when the order.refunded handler has completed without raising, a pack order with a
\* refunded amount > 0 is refunded and its lot is not active and has no second remaining;
\* an order that is not a pack is refunded only if the refunded amount covers the paid amount,
\* and no step of its handler changes a lot.
C32_RefundedPackIsGone ==
    [][\A p \in Procs :
          /\ (refunded_handled(p) /\ orders'["o1"].plan_type = "pack" /\ orders'["o1"].refunded > 0) =>
                /\ orders'["o1"].status = "refunded"
                /\ lots'[1].status # "active"
                /\ remaining_seconds_from_lot(lots'[1]) = 0
          /\ (refunded_handled(p) /\ orders'["o1"].plan_type # "pack" /\ orders'["o1"].status = "refunded") =>
                orders'["o1"].refunded >= orders'["o1"].paid
          /\ (loc[p].wh_type = "order.refunded" /\ steps(p) /\ orders["o1"].plan_type # "pack") =>
                lots' = lots]_vars


\* ------------------------------------------------------------------------
\* SpecQuoted: the refund of a pack is requested and, once the provider has
\* accepted it, order.refunded is delivered, while workers record the usage
\* of finished jobs of the same user.
\* ------------------------------------------------------------------------
\* order.refunded for the refund the provider accepted, with its amount as the order's total
DeliverQuoted(p) ==
    /\ events["e1"].status = "missing"
    /\ \E k \in DOMAIN refunds :
         /\ refunds[k].outcome = "ok"
         /\ CallWebhookRefunded(p, "e1", "o1", refunds[k].amount)

NextQuoted ==
    \E p \in Procs :
        \/ OrderRefundRequested(p)
        \/ request_pack_refund_fetch(p)
        \/ request_pack_refund_lot(p)
        \/ request_pack_refund_transition(p)
        \/ request_pack_refund_provider(p)
        \/ request_pack_refund_reopen(p)
        \/ request_pack_refund_reraise(p)
        \/ DeliverQuoted(p)
        \/ handle_polar_webhook_record(p)
        \/ handle_polar_webhook_claim(p)
        \/ handle_polar_webhook_mark(p)
        \/ OrderRefunded(p)
        \/ revoke_remaining_credit_lot_fetch(p)
        \/ revoke_remaining_credit_lot_try(p)
        \/ revoke_remaining_credit_lot_refetch(p)
        \/ BillingSync(p)
        \/ FrozenJob(p)
        \/ record_usage_for_job_fetch(p)
        \/ record_usage_for_job_sub_done(p)
        \/ record_usage_for_job_pack_done(p)
        \/ record_usage_for_job_end(p)
        \/ consume_credit_lots_start(p)
        \/ consume_credit_lots_loop(p)
        \/ consume_credit_lot_by_id_fetch(p)
        \/ consume_credit_lot_by_id_try(p)
        \/ consume_credit_lot_by_id_refetch(p)
        \/ summarize_credit_lots_select(p)
        \/ usage_sync_entitlement_snapshot_write(p)

SpecQuoted == InitFrozen /\ [][NextQuoted]_vars

\* C33: once the pack's lot is revoked, the amount the provider was asked for is at most the
\* value of the seconds revoked: floor(paid_amount_cents * revoked_seconds / granted_seconds).
C33_RefundWithinRevoked ==
    lots[1].status = "revoked" =>
        \A k \in DOMAIN refunds :
            refunds[k].outcome = "ok" =>
                refunds[k].amount <= refundable_amount_cents(orders["o1"].paid, lots[1].revoked, lots[1].granted)


\* ------------------------------------------------------------------------
\* SpecRedeliver: two order.refunded events for one order; trace holds the
\* payload of e1 and of e2 (at: an order-level total or a delta; debt: the
\* amount in cents).
\* ------------------------------------------------------------------------
RefundPayloads ==
    {[op |-> "payload", debt |-> a, at |-> m] : a \in {PartCents, PaidCents}, m \in {"total", "delta"}}

InitRedeliver ==
    /\ \E t \in {"pack", "subscription"} :
         /\ lots = RevokedLots[t]
         /\ orders = [o \in OrderIds |-> [NoOrder EXCEPT !.user = "u1", !.plan_type = t, !.paid = PaidCents,
                                                         !.status = IF t = "pack" THEN "refund_pending"
                                                                   ELSE "paid"]]
    /\ \E first \in RefundPayloads, second \in RefundPayloads : trace = <<first, second>>
    /\ returned = [i \in DOMAIN lots |-> lots[i].consumed]
    /\ cap = 2
    /\ now = 0
    /\ ent = [u \in Users |-> snapshot_of(lots, u, 0, cap, 0)]
    /\ debt_due = [u \in Users |-> 0]
    /\ events = [e \in EventIds |-> NoEvent]
    /\ usage_ledger = <<>>
    /\ refunds = <<>>
    /\ pc = [p \in Procs |-> "idle"]
    /\ stack = [p \in Procs |-> <<>>]
    /\ loc = [p \in Procs |-> NoLocals]

\* the provider delivers event k with its payload, until a delivery of it has been acknowledged
DeliverPayload(p, k) ==
    LET event_id == IF k = 1 THEN "e1" ELSE "e2" IN
    /\ unacknowledged(event_id)
    /\ IF trace[k].at = "total"
       THEN CallWebhookRefunded(p, event_id, "o1", trace[k].debt)
       ELSE CallWebhookRefundDelta(p, event_id, "o1", trace[k].debt)

NextRedeliver ==
    \E p \in Procs :
        \/ \E k \in {1, 2} : DeliverPayload(p, k)
        \/ handle_polar_webhook_record(p)
        \/ handle_polar_webhook_claim(p)
        \/ handle_polar_webhook_reclaim(p)
        \/ handle_polar_webhook_mark(p)
        \/ OrderRefunded(p)
        \/ revoke_remaining_credit_lot_fetch(p)
        \/ revoke_remaining_credit_lot_try(p)
        \/ BillingSync(p)
        \/ summarize_credit_lots_select(p)

SpecRedeliver == InitRedeliver /\ [][NextRedeliver]_vars

\* refunded_amount_cents after one handling of the payload on an order with nothing refunded
once_handled(payload, paid_amount_cents) == Min2(payload.debt, paid_amount_cents)

\* C34: when one payload was handled twice, under two event ids, refunded_amount_cents is
\* what it was after the first handling, for a total and for a delta; refunded_amount_cents
\* is always within 0..paid_amount_cents and never goes down.
C34_RefundedIdempotent ==
    /\ [](\A o \in OrderIds : orders[o].refunded >= 0 /\ orders[o].refunded <= orders[o].paid)
    /\ [][\A o \in OrderIds : orders'[o].refunded >= orders[o].refunded]_vars
    /\ []((AllIdle /\ trace[1] = trace[2] /\ \A e \in EventIds : events[e].status = "processed")
             => orders["o1"].refunded = once_handled(trace[1], orders["o1"].paid))


\* ------------------------------------------------------------------------
\* SpecJob: two workers record the usage of one finished job each, of one user;
\* each call is logged with the duration it was given, missing and zero included.
\* ------------------------------------------------------------------------
JobSeconds == 3                          \* longest job
JobDurations == {NoDuration, 0} \cup (1..JobSeconds)
JobLedgers ==
    UsageLedgers
    \cup {<< [id |-> 1, user |-> "u1", lot_type |-> "subscription_cycle", source_key |-> "s1", granted |-> 1,
              consumed |-> 0, revoked |-> 0, expires |-> FarExpiry, status |-> "active"],
             [id |-> 2, user |-> "u1", lot_type |-> "pack_order", source_key |-> "o1", granted |-> 1,
              consumed |-> 0, revoked |-> 0, expires |-> FarExpiry, status |-> "active"] >>}

InitJob ==
    /\ lots \in JobLedgers
    /\ returned = [i \in DOMAIN lots |-> lots[i].consumed]
    /\ cap = E2ECap
    /\ now = 1
    /\ \E d \in 0..1 :
         /\ ent \in {[u \in Users |-> snapshot_of(lots, u, d, cap, 0)]}
                    \cup (IF lots = <<>> /\ d = 0 THEN {[u \in Users |-> NoEnt]} ELSE {})
         /\ debt_due = [u \in Users |-> d]
         /\ trace = <<[op |-> "debt", seconds |-> d]>>
    /\ orders = [o \in OrderIds |-> NoOrder]
    /\ events = [e \in EventIds |-> NoEvent]
    /\ usage_ledger = <<>>
    /\ refunds = <<>>
    /\ pc = [p \in Procs |-> "idle"]
    /\ stack = [p \in Procs |-> <<>>]
    /\ loc = [p \in Procs |-> NoLocals]

\* usage.py lines 200-212: record_usage_for_job(user, job, duration) is called, and logged
JobLogged(p) ==
    \E d \in JobDurations :
        /\ pc[p] = "idle"
        /\ \A k \in DOMAIN trace : trace[k].op = "usage" => trace[k].by # p
        /\ IF d <= 0
           THEN UNCHANGED <<pc, stack, loc>>
           ELSE Call(p, "ruj_fetch", "idle",
                     [NoLocals EXCEPT !.ruj_user = "u1", !.ruj_duration = d, !.ruj_remaining = d])
        /\ trace' = Append(trace, [op |-> "usage", seconds |-> d, by |-> p])
        /\ UNCHANGED <<tables, cap, now, returned, debt_due>>

NextJob ==
    \E p \in Procs :
        \/ JobLogged(p)
        \/ RecordUsage(p)
        \/ EnsureFree(p)
        \/ ConsumeLots(p)
        \/ consume_credit_lot_by_id_fetch(p)
        \/ consume_credit_lot_by_id_try(p)
        \/ consume_credit_lot_by_id_refetch(p)
        \/ Summarize(p)
        \/ usage_sync_entitlement_snapshot_write(p)

SpecJob == InitJob /\ [][NextJob]_vars

RECURSIVE seconds_logged(_, _)
seconds_logged(entries, sources) ==
    IF entries = <<>> THEN 0
    ELSE (IF Head(entries).source \in sources THEN Head(entries).seconds ELSE 0)
         + seconds_logged(Tail(entries), sources)

RECURSIVE seconds_taken(_, _)
seconds_taken(rows, lot_type) ==
    IF rows = <<>> THEN 0
    ELSE (IF Head(rows).lot_type = lot_type THEN Head(rows).consumed ELSE 0)
         + seconds_taken(Tail(rows), lot_type)

RECURSIVE seconds_asked(_)
seconds_asked(calls) ==
    IF calls = <<>> THEN 0
    ELSE (IF Head(calls).op = "usage" /\ Head(calls).seconds > 0 THEN Head(calls).seconds ELSE 0)
         + seconds_asked(Tail(calls))

in_pack_part(frames) == \E k \in DOMAIN frames : frames[k] = "ruj_pack_done"

\* what a call in progress has still to book as usage-ledger entries or debt
unbooked(p) ==
    IF pc[p] \in {"idle", "ruj_end"} \/ \E k \in DOMAIN stack[p] : stack[p][k] = "ruj_end"
    THEN 0
    ELSE loc[p].ruj_remaining

RECURSIVE all_unbooked(_)
all_unbooked(S) ==
    IF S = {} THEN 0
    ELSE LET p == CHOOSE q \in S : TRUE IN unbooked(p) + all_unbooked(S \ {p})

\* C35: record_usage_for_job with duration > 0 asks the pack lots only after the subscription
\* lots returned less than the duration, and conserves the duration: seconds consumed from
\* subscription lots + seconds consumed from pack lots + seconds added to the debt it writes
\* = duration, with one usage-ledger entry per non-zero part, tagged subscription or pack,
\* whose seconds are the seconds consumed from that source; with duration <= 0 or missing it
\* writes nothing at all.
C35_UsageConserved ==
    /\ [](seconds_logged(usage_ledger, {"subscription", "pack"}) + (debt_due["u1"] - trace[1].seconds)
             + all_unbooked(Procs) = seconds_asked(trace))
    /\ [](AllIdle => /\ seconds_taken(lots, "subscription_cycle") = seconds_logged(usage_ledger, {"subscription"})
                     /\ seconds_taken(lots, "pack_order") = seconds_logged(usage_ledger, {"pack"}))
    /\ [][\A p \in Procs :
            LET l == loc[p]
                u == l.ruj_user
            IN /\ (steps(p) /\ pc[p] = "ruj_sub_done") =>
                     /\ usage_ledger' = IF l.ret > 0
                                        THEN Append(usage_ledger, [user |-> u, seconds |-> l.ret,
                                                                   source |-> "subscription"])
                                        ELSE usage_ledger
                     /\ in_pack_part(stack'[p]) <=> l.ret < l.ruj_duration
                     /\ in_pack_part(stack'[p]) =>
                           /\ loc'[p].ccl_type = "pack_order"
                           /\ loc'[p].ccl_remaining = l.ruj_duration - l.ret
                           /\ debt_due' = debt_due
                     /\ ~in_pack_part(stack'[p]) =>
                           /\ debt_due' = debt_due
                           /\ loc'[p].usy_debt = l.ruj_debt0
               /\ (steps(p) /\ pc[p] = "ruj_pack_done") =>
                     /\ usage_ledger' = IF l.ret > 0
                                        THEN Append(usage_ledger, [user |-> u, seconds |-> l.ret,
                                                                   source |-> "pack"])
                                        ELSE usage_ledger
                     /\ l.ret <= l.ruj_remaining
                     /\ debt_due' = [debt_due EXCEPT ![u] = @ + (l.ruj_remaining - l.ret)]
                     /\ loc'[p].usy_debt = l.ruj_debt0 + (l.ruj_remaining - l.ret)
               /\ (steps(p) /\ pc[p] # "ruj_sub_done") =>
                     (in_pack_part(stack'[p]) => in_pack_part(stack[p]))
               /\ (steps(p) /\ pc[p] \notin {"ruj_sub_done", "ruj_pack_done"}) =>
                     /\ usage_ledger' = usage_ledger
                     /\ debt_due' = debt_due
               /\ (trace' # trace /\ trace'[Len(trace')].seconds <= 0) =>
                     /\ tables' = tables
                     /\ <<pc, stack, loc, debt_due>>' = <<pc, stack, loc, debt_due>>]_vars

\* a job of three seconds was covered by one second of the subscription lot, one second of
\* the pack and one second of debt, after a call without a duration
C35_Witness ==
    /\ AllIdle
    /\ \E p, q \in Procs :
          trace = <<[op |-> "debt", seconds |-> 0], [op |-> "usage", seconds |-> NoDuration, by |-> p],
                    [op |-> "usage", seconds |-> JobSeconds, by |-> q]>>
    /\ usage_ledger = <<[user |-> "u1", seconds |-> 1, source |-> "subscription"],
                        [user |-> "u1", seconds |-> 1, source |-> "pack"]>>
    /\ ent["u1"].debt = 1


\* ------------------------------------------------------------------------
\* C36, in SpecHook: two workers, deliveries of one event, store requests of
\* the handler that fail, and a clock that passes the staleness threshold.
\* ------------------------------------------------------------------------
\* the delivery of worker p has claimed its event and is inside the handler it dispatched;
\* wh_at is the time of its claim
executing(p) == in_stack(stack[p], "wh_mark")

\* C36: at no time are two handlers executing for the same webhook event id unless the claim
\* held by the earlier one is older than the 300 s staleness threshold; a stale reclaim
\* succeeds only against a processing row whose claim is older than the cutoff, so of the
\* deliveries that find a stale claim at most one goes on to dispatch a handler.
C36_OneLiveHandler ==
    /\ [](\A p \in Procs, q \in Procs :
             (p # q /\ executing(p) /\ executing(q) /\ loc[p].wh_event = loc[q].wh_event)
                 => Min2(loc[p].wh_at, loc[q].wh_at) < now - WEBHOOK_PROCESSING_STALE_SECONDS)
    /\ [][\A p \in Procs :
            (steps(p) /\ pc[p] = "wh_reclaim" /\ pc'[p] = "wh_claim2") =>
                /\ events[loc[p].wh_event].status = "processing"
                /\ events[loc[p].wh_event].updated_at < now - WEBHOOK_PROCESSING_STALE_SECONDS]_vars


\* ------------------------------------------------------------------------
\* SpecLive: the provider delivers one order.paid event until a delivery has
\* been processed. The run of the delivery that recorded the event may fail at
\* a store request, one worker may stop inside the handler, and time passes
\* over the stopped worker's claim.
\* ------------------------------------------------------------------------
Redeliver(p) == unacknowledged("e1") /\ CallWebhook(p, "e1", "u1", "o1", "pack_small")

\* only the run of the delivery that inserted the row fails: a later run succeeds
FirstRunFails(p) == loc[p].wh_inserted /\ store_request_fails(p)

\* the requests of a delivery: each is awaited, so a worker that has not stopped goes on
LiveRun(p) ==
    \/ Webhook(p)
    \/ OrderPaid(p)
    \/ Paydown(p)
    \/ BillingSync(p)
    \/ summarize_credit_lots_select(p)
    \/ consume_credit_lot_by_id_fetch(p)
    \/ consume_credit_lot_by_id_try(p)

NextLive ==
    \/ CrashTick
    \/ \E p \in Procs :
        \/ Redeliver(p)
        \/ FirstRunFails(p)
        \/ Crash(p)
        \/ LiveRun(p)

\* the clock advances, the provider keeps delivering to a worker that is free, and a worker
\* that has not stopped issues its next request
SpecLive ==
    /\ InitCrash
    /\ [][NextLive]_vars
    /\ WF_vars(CrashTick)
    /\ \A p \in Procs : WF_vars(Redeliver(p)) /\ WF_vars(LiveRun(p))

CycleKey == "sub1:c1"                    \* f"{subscription_key}:{period_start.isoformat()}"
CycleLots ==
    {<< [id |-> 1, user |-> "u1", lot_type |-> "subscription_cycle", source_key |-> "sub1:c0",
         granted |-> 2, consumed |-> c, revoked |-> 0, expires |-> FarExpiry, status |-> "active"] >>
        : c \in 0..2}

InitCycle ==
    /\ lots \in CycleLots
    /\ returned = [i \in DOMAIN lots |-> lots[i].consumed]
    /\ cap = E2ECap
    /\ now = 0
    /\ \E d \in 0..1 :
         /\ ent = [u \in Users |-> snapshot_of(lots, u, d, cap, 0)]
         /\ debt_due = [u \in Users |-> d]
    /\ orders = [o \in OrderIds |-> NoOrder]
    /\ events = [e \in EventIds |-> NoEvent]
    /\ usage_ledger = <<>>
    /\ refunds = <<>>
    /\ trace = <<>>
    /\ pc = [p \in Procs |-> "idle"]
    /\ stack = [p \in Procs |-> <<>>]
    /\ loc = [p \in Procs |-> NoLocals]

\* an event of the cycle that has not been delivered yet arrives
DeliverCycle(p) ==
    \E e \in EventIds, t \in {"subscription.active", "subscription.updated"} :
        /\ events[e].status = "missing"
        /\ CallWebhookSubscription(p, e, t, "u1", "sub_monthly", CycleKey, FarExpiry)

\* everything a delivery of a subscription event runs
CycleHandler(p) ==
    \/ handle_polar_webhook_record(p)
    \/ handle_polar_webhook_claim(p)
    \/ handle_polar_webhook_reclaim(p)
    \/ handle_polar_webhook_mark(p)
    \/ SubscriptionEvent(p)
    \/ summarize_credit_lots_select(p)
    \/ Paydown(p)
    \/ consume_credit_lot_by_id_fetch(p)
    \/ consume_credit_lot_by_id_try(p)
    \/ BillingSync(p)

NextCycle == \E p \in Procs : DeliverCycle(p) \/ CycleHandler(p)

SpecCycle == InitCycle /\ [][NextCycle]_vars

cycle_lots == {i \in DOMAIN lots : lots[i].lot_type = "subscription_cycle" /\ lots[i].source_key = CycleKey}

\* C38: however many subscription events of one subscription id and current_period_start are
\* processed, one after the other or at once under distinct event ids, exactly one
\* subscription_cycle lot exists for the cycle, its granted_seconds is the value the first
\* grant gave it, and a later event neither raises granted_seconds nor resets the lot's
\* consumed_seconds, status or expiry.
C38_CycleGrantedOnce ==
    /\ [](Cardinality(cycle_lots) <= 1)
    /\ []((\E e \in EventIds : events[e].status = "processed") => Cardinality(cycle_lots) = 1)
    /\ [][\A i \in cycle_lots :
            /\ lots'[i].granted = lots[i].granted
            /\ lots'[i].consumed >= lots[i].consumed
            /\ lots'[i].status = lots[i].status
            /\ lots'[i].expires = lots[i].expires]_vars


\* ------------------------------------------------------------------------
\* SpecRollover: one subscription event opens a new billing cycle for a user
\* who holds the lot of the cycle before, while a worker records the usage of
\* a finished job of that user.
\* ------------------------------------------------------------------------
RolloverSeconds == 1                     \* duration of the job

\* the event of the new cycle arrives
DeliverRollover(p) ==
    /\ events["e1"].status = "missing"
    /\ CallWebhookSubscription(p, "e1", "subscription.active", "u1", "sub_monthly", CycleKey, FarExpiry)

\* a job of the user finished
RolloverJob(p) ==
    /\ usage_ledger = <<>> /\ debt_due["u1"] = 0
    /\ CallRecordUsage(p, "u1", RolloverSeconds)

NextRollover ==
    \E p \in Procs :
        \/ DeliverRollover(p)
        \/ RolloverJob(p)
        \/ CycleHandler(p)
        \/ record_usage_for_job_fetch(p)
        \/ record_usage_for_job_sub_done(p)
        \/ record_usage_for_job_pack_done(p)
        \/ record_usage_for_job_end(p)
        \/ consume_credit_lots_start(p)
        \/ consume_credit_lots_loop(p)
        \/ consume_credit_lot_by_id_refetch(p)
        \/ usage_sync_entitlement_snapshot_write(p)

SpecRollover == InitCycle /\ [][NextRollover]_vars

\* C39: when a subscription event opens a new billing cycle, the user's subscription lots of
\* before are expired and the new lot is granted quota + min(R, rollover_cap), R being what
\* those lots had left at the moment they were expired: seconds that a record_usage_for_job
\* consumed between the handler's read of R and the expiry are not granted again.
C39_RolloverOfWhatIsLeft ==
    \A i \in cycle_lots :
        LET plan == fetch_plan_by_product_id("sub_monthly")
            old == {lots[j] : j \in {k \in DOMAIN lots : /\ k # i /\ lots[k].user = lots[i].user
                                                         /\ lots[k].lot_type = "subscription_cycle"}}
        IN /\ \A r \in old : r.status = "expired"
           /\ lots[i].granted = plan.quota_seconds + rollover_of(SumRemaining(old), plan.rollover_cap_seconds)


\* ------------------------------------------------------------------------
\* SpecFree: the first usage of two users without an entitlement row is
\* recorded on the same calendar date, by two workers.
\* ------------------------------------------------------------------------
FreeUsers == {"u1", "u2"}
FreeSeconds == 1                         \* duration of the jobs

InitFree ==
    /\ lots = <<>>
    /\ returned = <<>>
    /\ cap = E2ECap
    /\ now = 0
    /\ ent = [u \in FreeUsers |-> NoEnt]
    /\ debt_due = [u \in FreeUsers |-> 0]
    /\ orders = [o \in OrderIds |-> NoOrder]
    /\ events = [e \in EventIds |-> NoEvent]
    /\ usage_ledger = <<>>
    /\ refunds = <<>>
    /\ trace = <<>>
    /\ pc = [p \in Procs |-> "idle"]
    /\ stack = [p \in Procs |-> <<>>]
    /\ loc = [p \in Procs |-> NoLocals]

\* the first job of a user finished: record_usage_for_job finds no entitlement row
FirstJob(p) ==
    \E u \in FreeUsers :
        /\ ~ent[u].exists
        /\ CallRecordUsage(p, u, FreeSeconds)

NextFree ==
    \E p \in Procs :
        \/ FirstJob(p)
        \/ RecordUsage(p)
        \/ EnsureFree(p)
        \/ consume_credit_lots_start(p)
        \/ consume_credit_lots_loop(p)
        \/ consume_credit_lot_by_id_fetch(p)
        \/ consume_credit_lot_by_id_try(p)
        \/ summarize_credit_lots_select(p)
        \/ usage_sync_entitlement_snapshot_write(p)

SpecFree == InitFree /\ [][NextFree]_vars

\* the user on whose behalf worker p is running
acting_user(p) == IF loc[p].efe_user # "" THEN loc[p].efe_user ELSE loc[p].ruj_user

\* C40: _ensure_free_entitlement for a user creates or touches only lots owned by that user:
\* it never changes the user_id, status, expiry or counters of another user's lot, also when
\* both users are initialized on the same calendar date, and each user ends with a free lot
\* of their own of the free plan's quota.
C40_FreeLotPerUser ==
    /\ [][\A p \in Procs : \A i \in DOMAIN lots :
            (steps(p) /\ lots[i].user # acting_user(p)) => lots'[i] = lots[i]]_vars
    /\ [](AllIdle =>
            \A u \in FreeUsers :
                ent[u].exists =>
                    \E i \in DOMAIN lots :
                        /\ lots[i].user = u
                        /\ lots[i].lot_type = "subscription_cycle" /\ lots[i].source_key = free_source_key
                        /\ lots[i].granted = fetch_plan_by_product_id("internal_free").quota_seconds)

====
